---- MODULE Spec2Model ----
(***************************************************************************)
(* Taxi dispatch backend: ride state machine, driver availability flag,    *)
(* shift tracker and driver-report reconciliation engine.                  *)
(*                                                                         *)
(* Conventions                                                             *)
(*  - Every HTTP handler is one action.  Its response code is the operator *)
(*    <handler>Resp, the chain of early returns of the handler in source   *)
(*    order; the action is enabled when the handler writes and applies its *)
(*    writes.  A request that is refused before any write leaves the state *)
(*    as it is (a stuttering step); what it answers is <handler>Resp.      *)
(*  - Money is an integer number of 1/10000 dollar (one cent = 100), so    *)
(*    the products cents * percent / 100 and the halves of a cent that the *)
(*    code produces before rounding are exact.                             *)
(*  - A timestamp field is TRUE when it is set.                            *)
(*  - Id 0 is null / undefined for references.                             *)
(***************************************************************************)
EXTENDS Integers, Sequences, FiniteSets, TLC

\* ------------------------------------------------------------------ bounds
NumDrivers == 2
MaxRides == 2
MaxShifts == 2

Drivers == 1..NumDrivers
ManagerId == NumDrivers + 1
AdminId == NumDrivers + 2
UserIds == 1..(NumDrivers + 2)
RideIds == 1..MaxRides
ShiftIds == 1..MaxShifts

ROLES == [ADMIN |-> "admin", MANAGER |-> "manager", DRIVER |-> "driver"]
DRIVER_STATUS == [FREE |-> "free", ON_RIDE |-> "on_ride", DROPPED |-> "dropped"]

\* role of a user id (the users collection is fixed: drivers, one manager, one admin)
RoleOf(u) == IF u \in Drivers THEN ROLES.DRIVER
             ELSE IF u = ManagerId THEN ROLES.MANAGER ELSE ROLES.ADMIN

\* req.user as supplied by authenticateToken
Actors == [id : UserIds, role : {ROLES.ADMIN, ROLES.MANAGER, ROLES.DRIVER}]
ReqUsers == {a \in Actors : a.role = RoleOf(a.id)}

\* requireRole([admin, manager]) route guard
isAdminOrManager(a) == a.role \in {ROLES.ADMIN, ROLES.MANAGER}

\* ------------------------------------------------------------------ money
Cent == 100
NoAmount == 0 - 1

\* The amounts are binary floating point numbers in the program.  An amount
\* that lies exactly half way between two cents is, as a double, a little
\* above or a little below the half: which of the two cents a rounding
\* returns depends on that error, so a rounding is the set of its outcomes.
NearestCents(x) ==
    IF (2 * x) % Cent = 0 /\ x % Cent # 0
    THEN {(x \div Cent) * Cent, (x \div Cent) * Cent + Cent}
    ELSE {((2 * x + Cent) \div (2 * Cent)) * Cent}

\* Number((a / b).toFixed(2)) for a >= 0, b > 0: the outcomes
toFixed2Div(a, b) ==
    IF (2 * a) % (b * Cent) = 0 /\ a % (b * Cent) # 0
    THEN {(a \div (b * Cent)) * Cent, (a \div (b * Cent)) * Cent + Cent}
    ELSE {((2 * a + b * Cent) \div (2 * b * Cent)) * Cent}

\* ------------------------------------------- report calculation service
\* a settings object: the rental rate is a whole percentage, the levy an amount
DEFAULT_SETTINGS == [rentalRatePercentage |-> 45, tripLevyRate |-> 132 * Cent]

\* truncation to the cent: what round2 is not
round2Down(x) == {(x \div Cent) * Cent}

\* Math.round((x + Number.EPSILON) * 100) / 100: the nearest cent; the
\* outcomes, two for an amount half way between two cents
round2(x) == NearestCents(x)

\* parseFloat(v ?? 0), 0 when not finite: a missing amount reads as 0
num(v) == IF v = NoAmount THEN 0 ELSE v

\* parseInt(v ?? 0, 10), 0 when not finite
int(v) == IF v = NoAmount THEN 0 ELSE v

canCalculateTotals(reportData) ==
    num(reportData.shiftEndTotal) >= num(reportData.shiftStartTotal)

\* the calculated fields of zeroCalcs (breakdown and calculatedAt left out)
zeroCalcs(settings) ==
    [threw |-> FALSE, partial |-> TRUE,
     shiftTotalFares |-> 0, totalFareAndLiftings |-> 0, rentals |-> 0,
     subTotal |-> 0, tripLevy |-> 0, driverNetPay |-> 0, operatorEarnings |-> 0,
     rentalRateUsed |-> settings.rentalRatePercentage]

\* the set of results calculateReportTotals can return is computed below;
\* calculateReportTotals threw: "Failed to calculate report totals: ..."
calcThrown(settings) == [zeroCalcs(settings) EXCEPT !.threw = TRUE, !.partial = FALSE]

\* the amounts are whole cents, so totalFareAndLiftings * rate / 100 is an
\* exact number of 1/10000 dollar
calculateReportTotals(reportData, settings, allowPartial) ==
    LET shiftStartTotal == num(reportData.shiftStartTotal)
        shiftEndTotal == num(reportData.shiftEndTotal)
        liftings == num(reportData.liftings)
        cashFares == num(reportData.cashFares)
        totalEFTPOS == num(reportData.totalEFTPOS)
        totalAccountTrips == num(reportData.totalAccountTrips)
        cashExpenses == num(reportData.cashExpenses)
        totalTripsCount == int(reportData.totalTripsCount)
        shiftTotalFares == shiftEndTotal - shiftStartTotal
        totalFareAndLiftings == shiftTotalFares + liftings + cashFares
        rentals == (totalFareAndLiftings * settings.rentalRatePercentage) \div 100
        subTotal == rentals - (totalEFTPOS + totalAccountTrips + cashExpenses)
        tripLevy == totalTripsCount * settings.tripLevyRate
        driverNetPay == 0 - (subTotal + tripLevy)
        operatorEarnings == totalFareAndLiftings - rentals
    IN  IF ~canCalculateTotals(reportData)
        THEN (IF allowPartial THEN {zeroCalcs(settings)} ELSE {calcThrown(settings)})
        ELSE [threw : {FALSE}, partial : {FALSE},
              shiftTotalFares : round2(shiftTotalFares),
              totalFareAndLiftings : round2(totalFareAndLiftings),
              rentals : round2(rentals),
              subTotal : round2(subTotal),
              tripLevy : round2(tripLevy),
              driverNetPay : round2(driverNetPay),
              operatorEarnings : round2(operatorEarnings),
              rentalRateUsed : {settings.rentalRatePercentage}]

\* validateCalculations(calculations, inputData).isValid
validateCalculations(calculations, inputData) ==
    /\ calculations.shiftTotalFares >= 0
    /\ calculations.totalFareAndLiftings >= 0
    /\ calculations.rentals <= calculations.totalFareAndLiftings
    /\ ~(inputData.totalTripsCount # NoAmount /\ inputData.totalTripsCount < 0)

\* ----------------------------------------------------------- reconciliation
\* every ride counts: what countsRide is not
countsAnyRide(ride) == TRUE

\* a ride enters the system totals when it is completed
countsRide(ride) == ride.status = "completed"

\* the reduce over associatedRides (a function from ride ids to rides): the
\* sum of fare.total and the number of the rides that count
RECURSIVE systemTotals(_, _)
systemTotals(associatedRides, ids) ==
    IF ids = {} THEN [totalSystemFares |-> 0, totalSystemTrips |-> 0]
    ELSE LET id == CHOOSE x \in ids : TRUE
             acc == systemTotals(associatedRides, ids \ {id})
         IN  IF countsRide(associatedRides[id])
             THEN [totalSystemFares |-> acc.totalSystemFares + associatedRides[id].total,
                   totalSystemTrips |-> acc.totalSystemTrips + 1]
             ELSE acc

\* Math.abs(v) <= threshold, the comparison the other way round: what
\* exceeds is not
atMost(v, threshold, exact) ==
    LET abs == IF v < 0 THEN 0 - v ELSE v
    IN  {abs <= threshold}

\* Math.abs(v) > threshold on doubles.  Whole dollars are exact; of other
\* amounts the difference carries a rounding error, which decides the
\* comparison when the variance is the threshold itself
exceeds(v, threshold, exact) ==
    LET abs == IF v < 0 THEN 0 - v ELSE v
    IN  IF abs = threshold /\ ~exact THEN BOOLEAN ELSE {abs > threshold}

\* the results calculateReconciliation can return (the GST total and the
\* variance percentage are left out)
calculateReconciliation(reportData, associatedRides) ==
    LET system == systemTotals(associatedRides, DOMAIN associatedRides)
        reportedTotalFares == num(reportData.shiftEndTotal) - num(reportData.shiftStartTotal)
        reportedTrips == int(reportData.totalTripsCount)
        fareVariance == reportedTotalFares - system.totalSystemFares
        tripVariance == reportedTrips - system.totalSystemTrips
        exact == /\ num(reportData.shiftEndTotal) % (100 * Cent) = 0
                 /\ num(reportData.shiftStartTotal) % (100 * Cent) = 0
                 /\ \A id \in DOMAIN associatedRides :
                       associatedRides[id].total % (100 * Cent) = 0
    IN  [hasSystemData : {TRUE},
         totalSystemFares : {system.totalSystemFares},
         totalSystemTrips : {system.totalSystemTrips},
         reportedTotalFares : {reportedTotalFares},
         reportedTrips : {reportedTrips},
         fareVariance : round2(fareVariance),
         tripVariance : {tripVariance},
         significantFareVariance : exceeds(fareVariance, 50 * 100 * Cent, exact),
         significantTripVariance : {tripVariance > 2 \/ tripVariance < 0 - 2},
         requiresReview :
            {f \/ tripVariance > 5 \/ tripVariance < 0 - 5 :
                f \in exceeds(fareVariance, 100 * 100 * Cent, exact)}]

\* ------------------------------------------------------------------ state
\* rides, users, shifts: the Ride, User (status of each driver) and Shift
\* collections; calls: the requests in flight between two awaits;
\* reports: the DriverReport collection; calc: an invocation of the report
\* calculation service, its arguments and what it returned; recon: an
\* invocation of calculateReconciliation, likewise
VARIABLES rides, users, shifts, calls, reports, calc, recon,
          notifications, sends, pushed, sseClients, conns

vars == <<rides, users, shifts, calls, reports, calc, recon,
          notifications, sends, pushed, sseClients, conns>>

\* notifications: the Notification collection, for each key the messages of
\* the documents stored under it, oldest first; sends: the sendNotification
\* calls in flight; pushed: the users ssePush was called for by the last
\* request; sseClients: the map from a user to the set of their responses;
\* conns: the /stream connections, and whether a close listener is attached
\* and whether a push was written after the socket had closed.
\* The ride, shift and report handlers of the sections that follow are
\* written over the collections their properties are about and leave the
\* notification store and the hub alone; reassignRideSend is reassignRide
\* with its notifications.
hub == <<notifications, sends, pushed, sseClients, conns>>

\* what the ride and shift handlers never touch
aux == <<calls, reports, calc, recon>>

RideStatus == {"scheduled", "assigned", "accepted", "started", "rejected",
               "cancelled", "aborted", "completed"}

\* a slot that holds no document: never created, or deleted
NoRide == [status |-> "none", driver |-> 0, shift |-> 0, startedAt |-> FALSE,
           acceptedAt |-> FALSE, nClients |-> 0, passengers |-> 0,
           total |-> 0, perPerson |-> 0, halfFare |-> 0,
           isQuickTrip |-> FALSE, isSelfAssigned |-> FALSE]

NoShift == [driver |-> 0, isActive |-> FALSE, ended |-> FALSE]

\* the inputs of a report: reportData as the calculation service reads it
NoReportData == [shiftStartTotal |-> NoAmount, shiftEndTotal |-> NoAmount,
                 liftings |-> NoAmount, cashFares |-> NoAmount,
                 totalEFTPOS |-> NoAmount, totalAccountTrips |-> NoAmount,
                 cashExpenses |-> NoAmount, totalTripsCount |-> NoAmount]

\* no invocation of the calculation service
NoCalc == [reportData |-> NoReportData, settings |-> DEFAULT_SETTINGS,
           allowPartial |-> FALSE, returned |-> FALSE,
           out |-> calcThrown(DEFAULT_SETTINGS)]

\* no invocation of calculateReconciliation
NoRecon == [report |-> 0, reportData |-> NoReportData, associatedRides |-> <<>>,
            returned |-> FALSE,
            out |-> [hasSystemData |-> FALSE, totalSystemFares |-> 0,
                     totalSystemTrips |-> 0, reportedTotalFares |-> 0,
                     reportedTrips |-> 0, fareVariance |-> 0, tripVariance |-> 0,
                     significantFareVariance |-> FALSE,
                     significantTripVariance |-> FALSE, requiresReview |-> FALSE]]

\* calculations as the DriverReport schema stores them (its defaults: zeros)
storedCalculations(c) ==
    [shiftTotalFares |-> c.shiftTotalFares,
     totalFareAndLiftings |-> c.totalFareAndLiftings,
     rentals |-> c.rentals, subTotal |-> c.subTotal, tripLevy |-> c.tripLevy,
     driverNetPay |-> c.driverNetPay, operatorEarnings |-> c.operatorEarnings,
     rentalRateUsed |-> c.rentalRateUsed]

\* a slot that holds no DriverReport document; a photo field is TRUE when
\* its photoUrl is set
MaxReports == 2
ReportIds == 1..MaxReports
ReportStatus == {"draft", "submitted", "approved", "rejected", "archived"}
NoReport == [status |-> "none", driver |-> 0, shift |-> 0,
             associatedRides |-> {}, reportData |-> NoReportData,
             endPhoto |-> FALSE, eftposPhoto |-> FALSE, expensePhoto |-> FALSE,
             calculations |-> storedCalculations(zeroCalcs(DEFAULT_SETTINGS))]

\* no request in flight
NumCalls == 2
CallIds == 1..NumCalls
NoActor == [id |-> 0, role |-> "none"]
NoCall == [op |-> "none", a |-> NoActor, d |-> 0, r |-> 0, n |-> 0, s |-> 0,
           pc |-> "idle", result |-> "none"]

Exists(r) == rides[r].status \in RideStatus

\* Ride.create stores the document under a fresh _id
FreshRide == CHOOSE r \in RideIds : rides[r].status = "none" /\
                 \A q \in RideIds : rides[q].status = "none" => r <= q
HasFreshRide == \E r \in RideIds : rides[r].status = "none"

FreshShift == CHOOSE s \in ShiftIds : shifts[s].driver = 0 /\
                 \A q \in ShiftIds : shifts[q].driver = 0 => s <= q
HasFreshShift == \E s \in ShiftIds : shifts[s].driver = 0

\* Shift.findOne({ driver, isActive: true })
ActiveShiftsOf(d) == {s \in ShiftIds : shifts[s].driver = d /\ shifts[s].isActive}
activeShift(d) == IF ActiveShiftsOf(d) = {} THEN 0 ELSE CHOOSE s \in ActiveShiftsOf(d) : TRUE

\* Shift.findOne({ driver, status: "active" }): the Shift schema has no status
\* path and strictQuery is on, so the filter is { driver } and any shift of
\* the driver can be the document returned
ShiftsByStatusActive(d) == {s \in ShiftIds : shifts[s].driver = d}

\* the keys of the ride notifications: data.status is "null" when the payload
\* carries no status
NotifTypes == {"ride_reassigned", "ride_status"}
NotifStatuses == {"null", "reassigned"}
NotifKeys == [user : Drivers, type : NotifTypes, rideId : RideIds,
              status : NotifStatuses]
NumSends == 2
SendIds == 1..NumSends
NoSend == [pc |-> "idle", user |-> 0, type |-> "none", rideId |-> 0,
           status |-> "null", message |-> 0]
MaxConns == 2
Conns == 1..MaxConns
NoConn == [state |-> "none", user |-> 0, handled |-> FALSE, listening |-> FALSE,
           written |-> FALSE]

\* nothing stored, no call in flight, no connection
InitHub ==
    /\ notifications = [k \in NotifKeys |-> << >>]
    /\ sends = [c \in SendIds |-> NoSend]
    /\ pushed = {}
    /\ sseClients = [u \in {} |-> {}]
    /\ conns = [k \in Conns |-> NoConn]

Init ==
    /\ rides = [r \in RideIds |-> NoRide]
    /\ users = [d \in Drivers |-> DRIVER_STATUS.FREE]
    /\ shifts = [s \in ShiftIds |-> NoShift]
    /\ calls = [c \in CallIds |-> NoCall]
    /\ reports = [id \in ReportIds |-> NoReport]
    /\ calc = NoCalc
    /\ recon = NoRecon
    /\ InitHub

\* ---------------------------------------------------------------- helpers
\* ensureDriverFree: "OK" or the code of the error it throws
ensureDriverFree(d) ==
    IF d \notin Drivers THEN "INVALID_DRIVER"
    ELSE IF users[d] # DRIVER_STATUS.FREE THEN "DRIVER_NOT_FREE"
    ELSE "OK"

\* User.findByIdAndUpdate(id, { status })
SetUserStatus(u, d, st) == IF d \in Drivers THEN [u EXCEPT ![d] = st] ELSE u

\* ------------------------------------------------------------- assignRide
assignRideResp(a, d, n) ==
    IF ~isAdminOrManager(a) THEN "FORBIDDEN"
    ELSE IF n = 0 \/ d = 0 THEN "VALIDATION_ERROR"
    ELSE IF ensureDriverFree(d) # "OK" THEN ensureDriverFree(d)
    ELSE "OK"

assignRide(a, d, n) ==
    /\ HasFreshRide
    /\ assignRideResp(a, d, n) = "OK"
    /\ rides' = [rides EXCEPT ![FreshRide] =
            [NoRide EXCEPT !.status = "assigned", !.driver = d,
                           !.nClients = n, !.passengers = n]]
    /\ users' = SetUserStatus(users, d, DRIVER_STATUS.ON_RIDE)
    /\ UNCHANGED <<hub, shifts, aux>>

\* ----------------------------------------------- createScheduledBooking
createScheduledBookingResp(a, n) ==
    IF ~isAdminOrManager(a) THEN "FORBIDDEN"
    ELSE IF n = 0 THEN "VALIDATION_ERROR"
    ELSE "OK"

createScheduledBooking(a, n) ==
    /\ HasFreshRide
    /\ createScheduledBookingResp(a, n) = "OK"
    /\ rides' = [rides EXCEPT ![FreshRide] =
           [NoRide EXCEPT !.status = "scheduled", !.nClients = n,
                          !.passengers = n]]
    /\ UNCHANGED <<hub, users, shifts, aux>>

\* ----------------------------------------------- assignScheduledBooking
assignScheduledBookingResp(a, r, d) ==
    IF ~isAdminOrManager(a) THEN "FORBIDDEN"
    ELSE IF d = 0 THEN "VALIDATION_ERROR"
    ELSE IF ~Exists(r) THEN "NOT_FOUND"
    ELSE IF rides[r].status # "scheduled" THEN "INVALID_STATUS"
    ELSE IF ensureDriverFree(d) # "OK" THEN ensureDriverFree(d)
    ELSE "OK"

assignScheduledBooking(a, r, d) ==
    /\ assignScheduledBookingResp(a, r, d) = "OK"
    /\ rides' = [rides EXCEPT ![r].driver = d, ![r].status = "assigned"]
    /\ users' = SetUserStatus(users, d, DRIVER_STATUS.ON_RIDE)
    /\ UNCHANGED <<hub, shifts, aux>>

\* ----------------------------------------------- deleteScheduledBooking
deleteScheduledBookingResp(a, r) ==
    IF ~isAdminOrManager(a) THEN "FORBIDDEN"
    ELSE IF ~Exists(r) THEN "NOT_FOUND"
    ELSE IF rides[r].status # "scheduled" THEN "INVALID_STATUS"
    ELSE "OK"

\* the document is removed; its _id is never used again
deleteScheduledBooking(a, r) ==
    /\ deleteScheduledBookingResp(a, r) = "OK"
    /\ rides' = [rides EXCEPT ![r] = [NoRide EXCEPT !.status = "deleted"]]
    /\ UNCHANGED <<hub, users, shifts, aux>>

\* ------------------------------------------------------------ acceptRide
\* ride.driver.toString() throws a TypeError when ride.driver is null (a
\* scheduled booking); the catch block hands it to errorHandler: 500
OwnerCheck(a, r) ==
    IF rides[r].driver = 0 THEN "INTERNAL_ERROR"
    ELSE IF a.id # rides[r].driver THEN "FORBIDDEN"
    ELSE "OK"

acceptRideResp(a, r) ==
    IF ~Exists(r) THEN "NOT_FOUND"
    ELSE IF OwnerCheck(a, r) # "OK" THEN OwnerCheck(a, r)
    ELSE IF rides[r].status # "assigned" THEN "INVALID_STATUS"
    ELSE IF activeShift(a.id) = 0 THEN "NO_ACTIVE_SHIFT"
    ELSE "OK"

acceptRide(a, r) ==
    /\ acceptRideResp(a, r) = "OK"
    /\ rides' = [rides EXCEPT ![r].status = "accepted",
                              ![r].acceptedAt = TRUE,
                              ![r].shift = activeShift(a.id)]
    /\ users' = SetUserStatus(users, rides[r].driver, DRIVER_STATUS.ON_RIDE)
    /\ UNCHANGED <<hub, shifts, aux>>

\* ------------------------------------------------------------ rejectRide
rejectRideResp(a, r) ==
    IF ~Exists(r) THEN "NOT_FOUND"
    ELSE IF OwnerCheck(a, r) # "OK" THEN OwnerCheck(a, r)
    ELSE IF rides[r].status # "assigned" THEN "INVALID_STATUS"
    ELSE "OK"

rejectRide(a, r) ==
    /\ rejectRideResp(a, r) = "OK"
    /\ rides' = [rides EXCEPT ![r].status = "rejected"]
    /\ users' = SetUserStatus(users, rides[r].driver, DRIVER_STATUS.FREE)
    /\ UNCHANGED <<hub, shifts, aux>>

\* ------------------------------------------------------------- startRide
startRideResp(a, r) ==
    IF ~Exists(r) THEN "NOT_FOUND"
    ELSE IF OwnerCheck(a, r) # "OK" THEN OwnerCheck(a, r)
    ELSE IF rides[r].status # "accepted" THEN "INVALID_STATUS"
    ELSE IF rides[r].startedAt THEN "ALREADY_STARTED"
    ELSE IF activeShift(a.id) = 0 THEN "NO_ACTIVE_SHIFT"
    ELSE "OK"

startRide(a, r) ==
    /\ startRideResp(a, r) = "OK"
    /\ rides' = [rides EXCEPT
           ![r].shift = IF @ = 0 THEN activeShift(a.id) ELSE @,
           ![r].startedAt = TRUE,
           ![r].status = "started"]
    /\ UNCHANGED <<hub, users, shifts, aux>>

\* -------------------------------------------------------------- dropRide
\* fareTotal = NoAmount: no fareTotal in the body; k: number of (existing)
\* client ids in additionalClientIds
dropFareTotal(r, fareTotal) == IF fareTotal # NoAmount THEN fareTotal ELSE rides[r].total

dropPerPerson(total, count) == IF count > 0 THEN toFixed2Div(total, count) ELSE {0}

dropHalfFare(total) == toFixed2Div(total, 2)

\* a guard that lets an accepted ride through: what completionGuard is not
completionGuardAccepted(r) ==
    IF rides[r].status \notin {"accepted", "started"} THEN "INVALID_STATUS" ELSE "OK"

\* the guard of a completion: status started, and startedAt double-checked
completionGuard(r) ==
    IF rides[r].status # "started" THEN "INVALID_STATUS"
    ELSE IF ~rides[r].startedAt THEN "RIDE_NOT_STARTED"
    ELSE "OK"

dropRideResp(a, r, fareTotal, k) ==
    IF ~Exists(r) THEN "NOT_FOUND"
    ELSE IF OwnerCheck(a, r) # "OK" THEN OwnerCheck(a, r)
    ELSE IF completionGuard(r) # "OK" THEN completionGuard(r)
    ELSE IF activeShift(a.id) = 0 THEN "NO_ACTIVE_SHIFT"
    \* ride.save(): passengers = clients.length violates the schema's min: 1
    ELSE IF rides[r].nClients + k < 1 THEN "INTERNAL_ERROR"
    ELSE "OK"

dropRide(a, r, fareTotal, k) ==
    /\ dropRideResp(a, r, fareTotal, k) = "OK"
    /\ \E farePerPerson \in dropPerPerson(dropFareTotal(r, fareTotal),
                                          rides[r].nClients + k),
          halfFare \in dropHalfFare(dropFareTotal(r, fareTotal)) :
         rides' = [rides EXCEPT
            ![r].shift = IF @ = 0 THEN activeShift(a.id) ELSE @,
            ![r].nClients = @ + k,
            ![r].total = dropFareTotal(r, fareTotal),
            ![r].perPerson = farePerPerson,
            ![r].halfFare = halfFare,
            ![r].passengers = rides[r].nClients + k,
            ![r].status = "completed"]
    /\ users' = SetUserStatus(users, rides[r].driver, DRIVER_STATUS.FREE)
    /\ UNCHANGED <<hub, shifts, aux>>

\* ----------------------------------------------------- cancelOngoingRide
cancelOngoingRideResp(a, r, reasonOk) ==
    IF ~reasonOk THEN "INVALID_REASON"
    ELSE IF ~Exists(r) THEN "NOT_FOUND"
    ELSE IF OwnerCheck(a, r) # "OK" THEN OwnerCheck(a, r)
    ELSE IF rides[r].status \notin {"assigned", "accepted", "started"} THEN "INVALID_STATUS"
    ELSE "OK"

cancelOngoingRide(a, r, reasonOk) ==
    /\ cancelOngoingRideResp(a, r, reasonOk) = "OK"
    /\ rides' = [rides EXCEPT ![r].status = "cancelled"]
    /\ users' = SetUserStatus(users, rides[r].driver, DRIVER_STATUS.FREE)
    /\ UNCHANGED <<hub, shifts, aux>>

\* -------------------------------------------------------------- abortRide
abortRideResp(a, r, reasonOk) ==
    IF ~isAdminOrManager(a) THEN "FORBIDDEN"
    ELSE IF ~reasonOk THEN "INVALID_REASON"
    ELSE IF ~Exists(r) THEN "NOT_FOUND"
    ELSE IF a.role # "manager" THEN "FORBIDDEN"
    ELSE IF rides[r].status \notin {"assigned", "accepted"} THEN "INVALID_STATUS"
    ELSE "OK"

\* an abort that leaves the driver as they are: what abortRide is not
abortRideKeepsDriver(a, r, reasonOk) ==
    /\ abortRideResp(a, r, reasonOk) = "OK"
    /\ rides' = [rides EXCEPT ![r].status = "aborted"]
    /\ UNCHANGED <<hub, users, shifts, aux>>

abortRide(a, r, reasonOk) ==
    /\ abortRideResp(a, r, reasonOk) = "OK"
    /\ rides' = [rides EXCEPT ![r].status = "aborted"]
    /\ users' = SetUserStatus(users, rides[r].driver, DRIVER_STATUS.FREE)
    /\ UNCHANGED <<hub, shifts, aux>>

\* ------------------------------------------------------- updateRideStatus
\* isSelfDriver || isStaff; for a driver the comparison dereferences ride.driver
updateRideStatusAuth(a, r) ==
    IF a.role = ROLES.DRIVER /\ rides[r].driver = 0 THEN "INTERNAL_ERROR"
    ELSE IF ~(a.role = ROLES.DRIVER /\ a.id = rides[r].driver) /\ ~isAdminOrManager(a)
         THEN "FORBIDDEN"
    ELSE "OK"

updateRideStatusResp(a, r, status) ==
    IF status \notin {"accepted", "cancelled", "completed"} THEN "VALIDATION_ERROR"
    ELSE IF ~Exists(r) THEN "NOT_FOUND"
    ELSE IF updateRideStatusAuth(a, r) # "OK" THEN updateRideStatusAuth(a, r)
    ELSE IF rides[r].status = "assigned" /\ status = "accepted" THEN "OK"
    ELSE IF rides[r].status \in {"assigned", "accepted", "started"} /\ status = "cancelled"
         THEN "OK"
    ELSE IF rides[r].status = "started" /\ status = "completed"
         THEN (IF ~rides[r].startedAt THEN "RIDE_NOT_STARTED" ELSE "OK")
    ELSE "INVALID_TRANSITION"

updateRideStatus(a, r, status) ==
    /\ updateRideStatusResp(a, r, status) = "OK"
    /\ rides' = [rides EXCEPT ![r].status = status,
                     ![r].acceptedAt = IF status = "accepted" THEN TRUE ELSE @]
    /\ users' = IF status = "accepted" THEN users
                ELSE SetUserStatus(users, rides[r].driver, DRIVER_STATUS.FREE)
    /\ UNCHANGED <<hub, shifts, aux>>

\* ------------------------------------------------------------ reassignRide
\* the old driver is set free before ensureDriverFree(newDriverId) runs
usersAfterRelease(r) == SetUserStatus(users, rides[r].driver, DRIVER_STATUS.FREE)

reassignEnsureFree(r, nd) ==
    IF nd \notin Drivers THEN "INVALID_DRIVER"
    ELSE IF usersAfterRelease(r)[nd] # DRIVER_STATUS.FREE THEN "DRIVER_NOT_FREE"
    ELSE "OK"

reassignRideResp(a, r, nd) ==
    IF ~isAdminOrManager(a) THEN "FORBIDDEN"
    ELSE IF nd = 0 THEN "VALIDATION_ERROR"
    ELSE IF ~Exists(r) THEN "NOT_FOUND"
    ELSE IF rides[r].status # "assigned" THEN "INVALID_TRANSITION"
    ELSE reassignEnsureFree(r, nd)

\* the writes of reassignRide to the rides and the drivers
reassignRideDrivers(a, r, nd) ==
    /\ \/ /\ reassignRideResp(a, r, nd) = "OK"
          /\ rides' = [rides EXCEPT ![r].driver = nd]
          /\ users' = SetUserStatus(usersAfterRelease(r), nd, DRIVER_STATUS.ON_RIDE)
       \/ /\ reassignRideResp(a, r, nd) \in {"INVALID_DRIVER", "DRIVER_NOT_FREE"}
          /\ users' = usersAfterRelease(r)
          /\ UNCHANGED rides
    /\ UNCHANGED <<shifts, aux>>

reassignRide(a, r, nd) ==
    /\ reassignRideDrivers(a, r, nd)
    /\ UNCHANGED hub

\* ------------------------------------------------------------ sendNotification
\* filter = { user, type, "data.rideId", "data.status" }: the key of a ride
\* notification
keyOf(userId, type, rideId, status) ==
    [user |-> userId, type |-> type, rideId |-> rideId, status |-> status]

\* an insert into a collection that has no unique index: what
\* insertNotification is not
insertUnindexed(store, key, message) ==
    [store EXCEPT ![key] = Append(@, message)]

\* the insert of the upsert under the unique index on
\* { user, type, data.rideId, data.status }: a second document with the key
\* of a stored one is refused (duplicate key) and the store is as it was
insertNotification(store, key, message) ==
    IF store[key] # << >> THEN store ELSE [store EXCEPT ![key] = Append(@, message)]

\* findOneAndUpdate(filter, { $setOnInsert }, { upsert: true }) with no other
\* write between its match and its insert: a document that matches is left
\* as it is
upsert(store, key, message) ==
    IF store[key] # << >> THEN store ELSE insertNotification(store, key, message)

\* isFresh: a document inserted by this call is younger than two seconds;
\* of one that was stored before, fresh says whether it (still) is
streams(store, key, fresh) == store[key] = << >> \/ fresh

\* reassignRide with its two sendNotification calls: ride_reassigned to the
\* new driver (no status in the payload), ride_status / reassigned to the
\* old one.  ensureDriverFree throws before them when it refuses.
reassignRideSend(a, r, nd, fresh) ==
    /\ reassignRideDrivers(a, r, nd)
    /\ IF reassignRideResp(a, r, nd) = "OK"
       THEN LET new == keyOf(nd, "ride_reassigned", r, "null")
                old == keyOf(rides[r].driver, "ride_status", r, "reassigned")
            IN  /\ notifications' = upsert(upsert(notifications, new, 1), old, 1)
                /\ pushed' = {k.user : k \in {k \in {new, old} :
                                                 streams(notifications, k, fresh)}}
       ELSE UNCHANGED <<notifications, pushed>>
    /\ UNCHANGED <<sends, sseClients, conns>>

\* sendNotification up to the match of findOneAndUpdate: a stored document
\* with the key is returned as it is, else the upsert goes on to insert
sendNotificationMatch(c, userId, type, rideId, status, message, fresh) ==
    /\ sends[c].pc = "idle"
    /\ sends' = [sends EXCEPT ![c] =
          [pc |-> IF notifications[keyOf(userId, type, rideId, status)] # << >>
                  THEN "done" ELSE "insert",
           user |-> userId, type |-> type, rideId |-> rideId, status |-> status,
           message |-> message]]
    /\ pushed' = IF notifications[keyOf(userId, type, rideId, status)] # << >> /\ fresh
                 THEN {userId} ELSE {}
    /\ UNCHANGED <<rides, users, shifts, aux, notifications, sseClients, conns>>

\* the insert of the upsert, and ssePush of the document it returns
sendNotificationInsert(c) ==
    /\ sends[c].pc = "insert"
    /\ LET key == keyOf(sends[c].user, sends[c].type, sends[c].rideId, sends[c].status)
       IN  notifications' = insertNotification(notifications, key, sends[c].message)
    /\ sends' = [sends EXCEPT ![c].pc = "done"]
    /\ pushed' = {sends[c].user}
    /\ UNCHANGED <<rides, users, shifts, aux, sseClients, conns>>

\* sendNotification returns (or throws) to its caller
sendNotificationReturn(c) ==
    /\ sends[c].pc = "done"
    /\ sends' = [sends EXCEPT ![c] = NoSend]
    /\ UNCHANGED <<rides, users, shifts, aux, notifications, pushed, sseClients, conns>>

\* ---------------------------------------------------------- createQuickTrip
createQuickTripResp(a, d) ==
    IF ~isAdminOrManager(a) THEN "FORBIDDEN"
    ELSE ensureDriverFree(d)

\* shift: activeShift?._id
quickTripShifts(d) == IF ShiftsByStatusActive(d) = {} THEN {0} ELSE ShiftsByStatusActive(d)

createQuickTrip(a, d) ==
    /\ HasFreshRide
    /\ createQuickTripResp(a, d) = "OK"
    /\ \E s \in quickTripShifts(d) :
         rides' = [rides EXCEPT ![FreshRide] =
            [NoRide EXCEPT !.status = "assigned", !.driver = d, !.shift = s,
                           !.isQuickTrip = TRUE, !.passengers = 1]]
    /\ users' = SetUserStatus(users, d, DRIVER_STATUS.ON_RIDE)
    /\ UNCHANGED <<hub, shifts, aux>>

\* ------------------------------------------------- completeQuickTripDetails
completeQuickTripDetailsResp(a, r, fare) ==
    IF ~Exists(r) THEN "RIDE_NOT_FOUND"
    ELSE IF ~rides[r].isQuickTrip THEN "NOT_QUICK_TRIP"
    ELSE IF a.role = ROLES.DRIVER /\ rides[r].driver # a.id THEN "FORBIDDEN"
    ELSE IF completionGuard(r) # "OK" THEN completionGuard(r)
    ELSE IF fare = NoAmount \/ fare <= 0 THEN "VALIDATION_ERROR"
    ELSE "OK"

\* ride.fare = { total: parsedFare, perPerson: parsedFare, halfFare: parsedFare / 2 }
quickTripHalfFare(fare) == fare \div 2

completeQuickTripDetails(a, r, fare) ==
    /\ completeQuickTripDetailsResp(a, r, fare) = "OK"
    /\ rides' = [rides EXCEPT ![r].nClients = 1,
                              ![r].total = fare,
                              ![r].perPerson = fare,
                              ![r].halfFare = quickTripHalfFare(fare),
                              ![r].status = "completed"]
    /\ users' = SetUserStatus(users, rides[r].driver, DRIVER_STATUS.FREE)
    /\ UNCHANGED <<hub, shifts, aux>>

\* --------------------------------------------------- createSelfAssignedRide
createSelfAssignedRideResp(a, fare, p) ==
    IF a.role # ROLES.DRIVER THEN "FORBIDDEN"
    ELSE IF ShiftsByStatusActive(a.id) = {} THEN "NO_ACTIVE_SHIFT"
    ELSE IF fare = NoAmount \/ fare <= 0 THEN "VALIDATION_ERROR"
    ELSE IF p < 1 THEN "VALIDATION_ERROR"
    ELSE "OK"

selfAssignedPerPerson(fare, p) == toFixed2Div(fare, p)

selfAssignedHalfFare(perPersonFare) == toFixed2Div(perPersonFare, 2)

createSelfAssignedRide(a, fare, p) ==
    /\ HasFreshRide
    /\ createSelfAssignedRideResp(a, fare, p) = "OK"
    /\ \E s \in ShiftsByStatusActive(a.id),
          perPersonFare \in selfAssignedPerPerson(fare, p) :
         \E halfFare \in selfAssignedHalfFare(perPersonFare) :
           rides' = [rides EXCEPT ![FreshRide] =
              [NoRide EXCEPT !.status = "accepted", !.driver = a.id, !.shift = s,
                             !.isSelfAssigned = TRUE, !.acceptedAt = TRUE,
                             !.nClients = 1, !.passengers = p,
                             !.total = fare,
                             !.perPerson = perPersonFare,
                             !.halfFare = halfFare]]
    /\ users' = SetUserStatus(users, a.id, DRIVER_STATUS.ON_RIDE)
    /\ UNCHANGED <<hub, shifts, aux>>

\* --------------------------------------------------------------- startShift
\* a collection without the index: every insert is accepted
noActiveShiftIndex(sh, d) == TRUE

\* Shift.create under the unique partial index { driver, isActive: true }:
\* TRUE iff the insert is accepted
uniqueActiveShiftIndex(sh, d) == ~\E s \in ShiftIds : sh[s].driver = d /\ sh[s].isActive

startShiftResp(a, inputOk) ==
    IF a.role # ROLES.DRIVER THEN "FORBIDDEN"
    ELSE IF ~inputOk THEN "BAD_REQUEST"
    ELSE IF activeShift(a.id) # 0 THEN "ACTIVE_SHIFT_EXISTS"
    ELSE IF ~uniqueActiveShiftIndex(shifts, a.id) THEN "SERVER_ERROR"
    ELSE "OK"

startShift(a, inputOk) ==
    /\ HasFreshShift
    /\ startShiftResp(a, inputOk) = "OK"
    /\ shifts' = [shifts EXCEPT ![FreshShift] =
           [driver |-> a.id, isActive |-> TRUE, ended |-> FALSE]]
    /\ UNCHANGED <<hub, rides, users, aux>>

\* ----------------------------------------------------------------- endShift
\* a filter without isActive: what the filter of endShift is not
endShiftRespOwned(a, s) ==
    IF a.role # ROLES.DRIVER THEN "FORBIDDEN"
    ELSE IF shifts[s].driver # a.id THEN "NOT_FOUND"
    ELSE "OK"

\* Shift.findOneAndUpdate({ _id, driver, isActive: true }, ...)
endShiftResp(a, s) ==
    IF a.role # ROLES.DRIVER THEN "FORBIDDEN"
    ELSE IF ~(shifts[s].driver = a.id /\ shifts[s].isActive) THEN "NOT_FOUND"
    ELSE "OK"

endShift(a, s) ==
    /\ endShiftResp(a, s) = "OK"
    /\ shifts' = [shifts EXCEPT ![s].isActive = FALSE, ![s].ended = TRUE]
    /\ UNCHANGED <<hub, rides, users, aux>>

\* --------------------------------------------------------------- updateUser
\* PATCH /users/:id behind isAdmin; status "absent": the body has no status.
\* User.findByIdAndUpdate(id, { status }) writes the status as it is given
updateUserResp(a, u, status) ==
    IF a.role # ROLES.ADMIN THEN "FORBIDDEN"
    ELSE IF u = a.id THEN "FORBIDDEN"
    ELSE IF u \notin UserIds THEN "NOT_FOUND"
    ELSE "OK"

updateUser(a, u, status) ==
    /\ updateUserResp(a, u, status) = "OK"
    /\ status # "absent"
    /\ users' = SetUserStatus(users, u, status)
    /\ UNCHANGED <<hub, rides, shifts, aux>>

\* ------------------------------------------------------- createDriverReport
ReportExists(id) == reports[id].status \in ReportStatus

FreshReport == CHOOSE id \in ReportIds : reports[id].status = "none" /\
                   \A q \in ReportIds : reports[q].status = "none" => id <= q
HasFreshReport == \E id \in ReportIds : reports[id].status = "none"

\* targetShift: the shift named in the body if it is the driver's, else the
\* driver's active shift; 0 when there is none
targetShift(a, body) ==
    IF body.shift # 0
    THEN (IF shifts[body.shift].driver = a.id THEN body.shift ELSE 0)
    ELSE activeShift(a.id)

\* the amounts of a body; a field the body leaves out takes the schema default
bodyData(body) ==
    [NoReportData EXCEPT !.shiftStartTotal = body.shiftStartTotal,
                         !.shiftEndTotal = body.shiftEndTotal,
                         !.liftings = 0, !.cashFares = 0,
                         !.totalEFTPOS = body.totalEFTPOS,
                         !.totalAccountTrips = 0, !.cashExpenses = 0,
                         !.totalTripsCount = body.totalTripsCount]

\* JavaScript truthiness of an amount
truthy(v) == v # NoAmount /\ v # 0

\* validators that compare no end total with the start total: what
\* schemaValid is not
schemaValidUnordered(rd, status) ==
    /\ rd.shiftStartTotal # NoAmount /\ rd.shiftStartTotal >= 0
    /\ rd.shiftEndTotal # NoAmount /\ rd.shiftEndTotal >= 0
    /\ rd.totalTripsCount # NoAmount /\ rd.totalTripsCount >= 0
    /\ status \in ReportStatus

\* the validators of the DriverReport schema on an amount record: the
\* required paths, min: 0, and end >= start.  The photoUrl validators run
\* only on a photoUrl that is set, and then pass.
schemaValid(rd, status) ==
    /\ rd.shiftStartTotal # NoAmount /\ rd.shiftStartTotal >= 0
    /\ rd.shiftEndTotal # NoAmount /\ rd.shiftEndTotal >= 0
    /\ rd.shiftEndTotal >= rd.shiftStartTotal
    /\ rd.totalTripsCount # NoAmount /\ rd.totalTripsCount >= 0
    /\ status \in ReportStatus

\* Ride.find({ driver, status: "completed", scheduledTime within the report's
\* day }); every ride is taken to be scheduled on that day
completedRidesOf(d) ==
    {r \in RideIds : rides[r].driver = d /\ rides[r].status = "completed"}

\* status: "draft", then ...reportData spread over it: a status in the body wins
createdStatus(body) == IF body.status = "absent" THEN "draft" ELSE body.status

createDriverReportResp(a, body) ==
    IF a.role # ROLES.DRIVER THEN "FORBIDDEN"
    ELSE IF targetShift(a, body) = 0
         THEN (IF body.shift # 0 THEN "INVALID_SHIFT" ELSE "NO_ACTIVE_SHIFT")
    ELSE IF \E id \in ReportIds : /\ ReportExists(id)
                                  /\ reports[id].driver = a.id
                                  /\ reports[id].shift = targetShift(a, body)
         THEN "REPORT_EXISTS"
    ELSE IF /\ truthy(body.shiftStartTotal) /\ truthy(body.shiftEndTotal)
            /\ ~canCalculateTotals(bodyData(body))
         THEN "INTERNAL_ERROR"
    ELSE IF ~schemaValid(bodyData(body), createdStatus(body)) THEN "VALIDATION_ERROR"
    ELSE "OK"

\* calculations are filled in only when both meter totals are truthy
createCalculations(body) ==
    IF truthy(body.shiftStartTotal) /\ truthy(body.shiftEndTotal)
    THEN {storedCalculations(c) :
             c \in calculateReportTotals(bodyData(body), DEFAULT_SETTINGS, FALSE)}
    ELSE {storedCalculations(zeroCalcs(DEFAULT_SETTINGS))}

createDriverReport(a, body) ==
    /\ HasFreshReport
    /\ createDriverReportResp(a, body) = "OK"
    /\ \E calculations \in createCalculations(body) :
         reports' = [reports EXCEPT ![FreshReport] =
            [status |-> createdStatus(body), driver |-> a.id,
             shift |-> targetShift(a, body),
             associatedRides |-> completedRidesOf(a.id),
             reportData |-> bodyData(body),
             endPhoto |-> body.endPhoto, eftposPhoto |-> body.eftposPhoto,
             expensePhoto |-> FALSE, calculations |-> calculations]]
    /\ UNCHANGED <<hub, rides, users, shifts, calls, calc, recon>>

\* ------------------------------------------------------ updateReportPhotoUrl
\* DriverReport.findOne({ reportId, driver: driverId })
ownReport(a, id) == ReportExists(id) /\ reports[id].driver = a.id

\* a check that lets a report under review through: what canEdit is not
canEditUnreviewed(id) == reports[id].status \in {"draft", "submitted"}

canEdit(id) == reports[id].status = "draft"

updateReportPhotoUrlResp(a, id, photoType) ==
    IF a.role # ROLES.DRIVER THEN "FORBIDDEN"
    ELSE IF photoType \notin {"meter_start", "meter_end", "eftpos", "expense"}
         THEN "INVALID_PHOTO_TYPE"
    ELSE IF ~ownReport(a, id) THEN "REPORT_NOT_FOUND"
    ELSE IF ~canEdit(id) THEN "REPORT_NOT_EDITABLE"
    ELSE "OK"

updateReportPhotoUrl(a, id, photoType) ==
    /\ updateReportPhotoUrlResp(a, id, photoType) = "OK"
    /\ reports' = [reports EXCEPT
          ![id].endPhoto = IF photoType = "meter_end" THEN TRUE ELSE @,
          ![id].eftposPhoto = IF photoType = "eftpos" THEN TRUE ELSE @,
          ![id].expensePhoto = IF photoType = "expense" THEN TRUE ELSE @]
    /\ UNCHANGED <<hub, rides, users, shifts, calls, calc, recon>>

\* -------------------------------------------------------- updateDriverReport
\* updateData: an amount is NoAmount when the body leaves the field out;
\* photoUrl: the meter and EFTPOS objects of the body carry a photoUrl.
\* report[field] = updateData[field] for every allowed field that is defined
updatedData(id, updateData) ==
    [reports[id].reportData EXCEPT
        !.shiftStartTotal = IF "shiftStartTotal" \in DOMAIN updateData
                            THEN (IF updateData.shiftStartTotal # NoAmount
                                  THEN updateData.shiftStartTotal ELSE @)
                            ELSE @,
        !.shiftEndTotal = IF updateData.shiftEndTotal # NoAmount
                          THEN updateData.shiftEndTotal ELSE @,
        !.totalEFTPOS = IF updateData.totalEFTPOS # NoAmount
                        THEN updateData.totalEFTPOS ELSE @,
        !.liftings = IF updateData.liftings # NoAmount THEN updateData.liftings ELSE @]

\* the body holds a truthy financial field: an object is truthy, 0 is not
recalculates(updateData) ==
    \/ ("shiftStartTotal" \in DOMAIN updateData /\ updateData.shiftStartTotal # NoAmount)
    \/ updateData.shiftEndTotal # NoAmount
    \/ updateData.totalEFTPOS # NoAmount
    \/ truthy(updateData.liftings)

updateDriverReportResp(a, id, updateData, calculations) ==
    IF a.role # ROLES.DRIVER THEN "FORBIDDEN"
    ELSE IF ~ownReport(a, id) THEN "REPORT_NOT_FOUND"
    ELSE IF ~canEdit(id) THEN "REPORT_NOT_EDITABLE"
    ELSE IF recalculates(updateData) /\ calculations.threw THEN "INTERNAL_ERROR"
    ELSE IF /\ recalculates(updateData)
            /\ ~validateCalculations(calculations, updatedData(id, updateData))
         THEN "CALCULATION_ERROR"
    ELSE IF ~schemaValid(updatedData(id, updateData), reports[id].status)
         THEN "VALIDATION_ERROR"
    ELSE "OK"

\* assigning an object to shiftEndTotal or totalEFTPOS replaces the nested
\* path: its photoUrl becomes the one of the body, or none
updateDriverReport(a, id, updateData) ==
    /\ ReportExists(id)
    /\ \E calculations \in calculateReportTotals(updatedData(id, updateData),
                                                 DEFAULT_SETTINGS, FALSE) :
         /\ updateDriverReportResp(a, id, updateData, calculations) = "OK"
         /\ reports' = [reports EXCEPT
               ![id].reportData = updatedData(id, updateData),
               ![id].endPhoto = IF updateData.shiftEndTotal # NoAmount
                                THEN updateData.photoUrl ELSE @,
               ![id].eftposPhoto = IF updateData.totalEFTPOS # NoAmount
                                   THEN updateData.photoUrl ELSE @,
               ![id].calculations = IF recalculates(updateData)
                                    THEN storedCalculations(calculations) ELSE @]
    /\ UNCHANGED <<hub, rides, users, shifts, calls, calc, recon>>

\* --------------------------------------------------------- uploadReportPhoto
\* file: multer has put a file on the request; photoType "absent": none in
\* the body.  uploadPhotoToStorage throws on a photo type it does not know,
\* before the switch is reached.
uploadReportPhotoResp(a, id, photoType, file) ==
    IF a.role # ROLES.DRIVER THEN "FORBIDDEN"
    ELSE IF ~file THEN "NO_FILE"
    ELSE IF photoType = "absent" THEN "NO_PHOTO_TYPE"
    ELSE IF ~ownReport(a, id) THEN "REPORT_NOT_FOUND"
    ELSE IF ~canEdit(id) THEN "REPORT_NOT_EDITABLE"
    ELSE IF photoType \notin {"meter_start", "meter_end", "eftpos", "expense"}
         THEN "INTERNAL_ERROR"
    ELSE "OK"

uploadReportPhoto(a, id, photoType, file) ==
    /\ uploadReportPhotoResp(a, id, photoType, file) = "OK"
    /\ reports' = [reports EXCEPT
          ![id].endPhoto = IF photoType = "meter_end" THEN TRUE ELSE @,
          ![id].eftposPhoto = IF photoType = "eftpos" THEN TRUE ELSE @,
          ![id].expensePhoto = IF photoType = "expense" THEN TRUE ELSE @]
    /\ UNCHANGED <<hub, rides, users, shifts, calls, calc, recon>>

\* --------------------------------------------------------------- submitReport
\* a check of the end-meter photo alone: what canSubmit is not
canSubmitMeterOnly(id) == reports[id].status = "draft" /\ reports[id].endPhoto

canSubmit(id) ==
    /\ reports[id].status = "draft"
    /\ reports[id].endPhoto
    /\ (num(reports[id].reportData.totalEFTPOS) > 0 => reports[id].eftposPhoto)
    /\ (num(reports[id].reportData.cashExpenses) > 0 => reports[id].expensePhoto)
    /\ reports[id].reportData.totalTripsCount >= 0

\* what calculateReportTotals(report) can return
submitCalculations(id) ==
    calculateReportTotals(reports[id].reportData, DEFAULT_SETTINGS, FALSE)

submitReportResp(a, id, calculations) ==
    IF a.role # ROLES.DRIVER THEN "FORBIDDEN"
    ELSE IF ~ownReport(a, id) THEN "REPORT_NOT_FOUND"
    ELSE IF reports[id].status # "draft" THEN "INVALID_STATUS"
    ELSE IF ~canSubmit(id) THEN "REPORT_INCOMPLETE"
    ELSE IF calculations.threw THEN "INTERNAL_ERROR"
    ELSE IF ~validateCalculations(calculations, reports[id].reportData)
         THEN "CALCULATION_ERROR"
    ELSE "OK"

submitReport(a, id) ==
    /\ ReportExists(id)
    /\ \E calculations \in submitCalculations(id) :
         /\ submitReportResp(a, id, calculations) = "OK"
         /\ reports' = [reports EXCEPT ![id].status = "submitted",
                           ![id].calculations = storedCalculations(calculations)]
    /\ UNCHANGED <<hub, rides, users, shifts, calls, calc, recon>>

\* --------------------------------------------------------------- reviewReport
reviewReportResp(a, id, action) ==
    IF ~isAdminOrManager(a) THEN "FORBIDDEN"
    ELSE IF action \notin {"approve", "reject"} THEN "INVALID_ACTION"
    ELSE IF ~ReportExists(id) THEN "REPORT_NOT_FOUND"
    ELSE IF reports[id].status # "submitted" THEN "INVALID_STATUS"
    ELSE "OK"

reviewReport(a, id, action) ==
    /\ reviewReportResp(a, id, action) = "OK"
    /\ reports' = [reports EXCEPT ![id].status =
                      IF action = "approve" THEN "approved" ELSE "rejected"]
    /\ UNCHANGED <<hub, rides, users, shifts, calls, calc, recon>>

\* --------------------------------------------------------------- deleteReport
deleteReportResp(a, id) ==
    IF a.role # ROLES.DRIVER THEN "FORBIDDEN"
    ELSE IF ~ownReport(a, id) THEN "REPORT_NOT_FOUND"
    ELSE IF reports[id].status # "draft" THEN "REPORT_NOT_DELETABLE"
    ELSE "OK"

\* the document is removed; its _id is never used again
deleteReport(a, id) ==
    /\ deleteReportResp(a, id) = "OK"
    /\ reports' = [reports EXCEPT ![id] = [NoReport EXCEPT !.status = "deleted"]]
    /\ UNCHANGED <<hub, rides, users, shifts, calls, calc, recon>>

\* -------------------------------------------------------------- getReportById
getReportByIdResp(a, id) ==
    IF ~ReportExists(id) THEN "REPORT_NOT_FOUND"
    ELSE IF a.role = ROLES.DRIVER /\ reports[id].driver # a.id THEN "ACCESS_DENIED"
    ELSE "OK"

\* populate("associatedRides"): the rides stored on the report, as they are now
populatedRides(id) ==
    [r \in {q \in reports[id].associatedRides : Exists(q)} |-> rides[r]]

\* the reconciliation of the response
getReportById(a, id) ==
    /\ getReportByIdResp(a, id) = "OK"
    /\ \E o \in calculateReconciliation(reports[id].reportData, populatedRides(id)) :
          recon' = [report |-> id, reportData |-> reports[id].reportData,
                    associatedRides |-> populatedRides(id),
                    returned |-> TRUE, out |-> o]
    /\ UNCHANGED <<hub, rides, users, shifts, calls, reports, calc>>

\* ------------------------------------------- requests between two awaits
\* A handler is a sequence of awaited store operations; another request can
\* run between two of them.  A call is a request in flight: pc is the await
\* it has reached, result the response once pc = "done".
CallAt(c, op, pc) == calls[c].op = op /\ calls[c].pc = pc

Finish(c, result) == [calls EXCEPT ![c].pc = "done", ![c].result = result]

\* the response is sent: the slot serves the next request
respond(c) ==
    /\ calls[c].pc = "done"
    /\ calls' = [calls EXCEPT ![c] = NoCall]
    /\ UNCHANGED <<hub, rides, users, shifts, reports, calc, recon>>

\* startShift up to and including Shift.findOne({ driver, isActive: true })
startShiftFind(c, a) ==
    /\ calls[c].pc = "idle"
    /\ a.role = ROLES.DRIVER
    /\ calls' = [calls EXCEPT ![c] =
          IF activeShift(a.id) # 0
          THEN [NoCall EXCEPT !.op = "startShift", !.a = a, !.pc = "done",
                              !.result = "ACTIVE_SHIFT_EXISTS"]
          ELSE [NoCall EXCEPT !.op = "startShift", !.a = a, !.pc = "create"]]
    /\ UNCHANGED <<hub, rides, users, shifts, reports, calc, recon>>

\* await sendNotification(...) inside the try block of a handler: when the
\* dispatch fails the promise rejects and the catch block answers with error
notified(delivered, error) == IF delivered THEN "OK" ELSE error

\* startShift from Shift.create on: a rejected insert lands in the catch
\* block, and so does a failure of notifyAdminsAndManagers after the insert
startShiftCreate(c, delivered) ==
    /\ CallAt(c, "startShift", "create")
    /\ IF uniqueActiveShiftIndex(shifts, calls[c].a.id)
       THEN /\ HasFreshShift
            /\ shifts' = [shifts EXCEPT ![FreshShift] =
                   [driver |-> calls[c].a.id, isActive |-> TRUE, ended |-> FALSE]]
            /\ calls' = Finish(c, notified(delivered, "SERVER_ERROR"))
       ELSE /\ calls' = Finish(c, "SERVER_ERROR")
            /\ UNCHANGED shifts
    /\ UNCHANGED <<hub, rides, users, reports, calc, recon>>

\* assignRide up to and including ensureDriverFree
assignRideCheck(c, a, d, n) ==
    /\ calls[c].pc = "idle"
    /\ calls' = [calls EXCEPT ![c] =
          [NoCall EXCEPT !.op = "assignRide", !.a = a, !.d = d, !.n = n,
               !.pc = IF assignRideResp(a, d, n) = "OK" THEN "write" ELSE "done",
               !.result = assignRideResp(a, d, n)]]
    /\ UNCHANGED <<hub, rides, users, shifts, reports, calc, recon>>

\* assignScheduledBooking up to and including ensureDriverFree
assignScheduledBookingCheck(c, a, r, d) ==
    /\ calls[c].pc = "idle"
    /\ calls' = [calls EXCEPT ![c] =
          [NoCall EXCEPT !.op = "assignScheduledBooking", !.a = a, !.d = d, !.r = r,
               !.pc = IF assignScheduledBookingResp(a, r, d) = "OK"
                      THEN "write" ELSE "done",
               !.result = assignScheduledBookingResp(a, r, d)]]
    /\ UNCHANGED <<hub, rides, users, shifts, reports, calc, recon>>

\* createQuickTrip up to and including ensureDriverFree
createQuickTripCheck(c, a, d) ==
    /\ calls[c].pc = "idle"
    /\ calls' = [calls EXCEPT ![c] =
          [NoCall EXCEPT !.op = "createQuickTrip", !.a = a, !.d = d,
               !.pc = IF createQuickTripResp(a, d) = "OK" THEN "write" ELSE "done",
               !.result = createQuickTripResp(a, d)]]
    /\ UNCHANGED <<hub, rides, users, shifts, reports, calc, recon>>

\* Ride.create of assignRide
assignRideCreate(c) ==
    /\ CallAt(c, "assignRide", "write")
    /\ HasFreshRide
    /\ rides' = [rides EXCEPT ![FreshRide] =
            [NoRide EXCEPT !.status = "assigned", !.driver = calls[c].d,
                           !.nClients = calls[c].n, !.passengers = calls[c].n]]
    /\ calls' = [calls EXCEPT ![c].pc = "mark", ![c].r = FreshRide]
    /\ UNCHANGED <<hub, users, shifts, reports, calc, recon>>

\* booking.save() of assignScheduledBooking: the paths set on the document
\* read earlier are written, whatever the stored document has become
assignScheduledBookingSave(c) ==
    /\ CallAt(c, "assignScheduledBooking", "write")
    /\ Exists(calls[c].r)
    /\ rides' = [rides EXCEPT ![calls[c].r].driver = calls[c].d,
                              ![calls[c].r].status = "assigned"]
    /\ calls' = [calls EXCEPT ![c].pc = "mark"]
    /\ UNCHANGED <<hub, users, shifts, reports, calc, recon>>

\* Shift.findOne and Ride.create of createQuickTrip
createQuickTripCreate(c) ==
    /\ CallAt(c, "createQuickTrip", "write")
    /\ HasFreshRide
    /\ \E s \in quickTripShifts(calls[c].d) :
         rides' = [rides EXCEPT ![FreshRide] =
            [NoRide EXCEPT !.status = "assigned", !.driver = calls[c].d, !.shift = s,
                           !.isQuickTrip = TRUE, !.passengers = 1]]
    /\ calls' = [calls EXCEPT ![c].pc = "mark", ![c].r = FreshRide]
    /\ UNCHANGED <<hub, users, shifts, reports, calc, recon>>

\* User.findByIdAndUpdate(driver, { status: ON_RIDE }) of the three
\* assigning handlers and of acceptRide, the notification that follows it,
\* and the response
driverOnRide(c, delivered) ==
    /\ calls[c].pc = "mark"
    /\ users' = SetUserStatus(users, calls[c].d, DRIVER_STATUS.ON_RIDE)
    /\ calls' = Finish(c, notified(delivered, "INTERNAL_ERROR"))
    /\ UNCHANGED <<hub, rides, shifts, reports, calc, recon>>

\* acceptRide up to and including the checks on the ride read by
\* Ride.findById: existence, owner, status
acceptRideFind(c, a, r) ==
    /\ calls[c].pc = "idle"
    /\ LET resp == IF ~Exists(r) THEN "NOT_FOUND"
                   ELSE IF OwnerCheck(a, r) # "OK" THEN OwnerCheck(a, r)
                   ELSE IF rides[r].status # "assigned" THEN "INVALID_STATUS"
                   ELSE "OK"
       IN  calls' = [calls EXCEPT ![c] =
              [NoCall EXCEPT !.op = "acceptRide", !.a = a, !.r = r,
                   !.d = rides[r].driver,
                   !.pc = IF resp = "OK" THEN "write" ELSE "done",
                   !.result = resp]]
    /\ UNCHANGED <<hub, rides, users, shifts, reports, calc, recon>>

\* acceptRide from Shift.findOne to ride.save(): the save writes the paths
\* set on the document read earlier, whatever the stored ride has become.
\* The driver is marked on_ride and the manager notified in the next step
\* (driverOnRide)
acceptRideSave(c) ==
    /\ CallAt(c, "acceptRide", "write")
    /\ IF activeShift(calls[c].a.id) = 0
       THEN /\ calls' = Finish(c, "NO_ACTIVE_SHIFT")
            /\ UNCHANGED rides
       ELSE /\ rides' = [rides EXCEPT ![calls[c].r].status = "accepted",
                                      ![calls[c].r].acceptedAt = TRUE,
                                      ![calls[c].r].shift = activeShift(calls[c].a.id)]
            /\ calls' = [calls EXCEPT ![c].pc = "mark"]
    /\ UNCHANGED <<hub, users, shifts, reports, calc, recon>>

\* abortRide up to and including the checks on the ride read by Ride.findById
abortRideFind(c, a, r) ==
    /\ calls[c].pc = "idle"
    /\ calls' = [calls EXCEPT ![c] =
          [NoCall EXCEPT !.op = "abortRide", !.a = a, !.r = r,
               !.d = rides[r].driver,
               !.pc = IF abortRideResp(a, r, TRUE) = "OK" THEN "write" ELSE "done",
               !.result = abortRideResp(a, r, TRUE)]]
    /\ UNCHANGED <<hub, rides, users, shifts, reports, calc, recon>>

\* ride.save() of abortRide: status aborted is written over whatever the
\* stored ride has become
abortRideSave(c) ==
    /\ CallAt(c, "abortRide", "write")
    /\ rides' = [rides EXCEPT ![calls[c].r].status = "aborted"]
    /\ calls' = [calls EXCEPT ![c].pc = "free"]
    /\ UNCHANGED <<hub, users, shifts, reports, calc, recon>>

\* User.findByIdAndUpdate(ride.driver, { status: FREE }) of abortRide, the
\* notification of the driver, and the response
abortRideFree(c, delivered) ==
    /\ CallAt(c, "abortRide", "free")
    /\ users' = SetUserStatus(users, calls[c].d, DRIVER_STATUS.FREE)
    /\ calls' = Finish(c, notified(delivered, "INTERNAL_ERROR"))
    /\ UNCHANGED <<hub, rides, shifts, reports, calc, recon>>

\* a body of createDriverReport that names no shift and no status and is
\* complete but for the photos
DraftBody ==
    [shift |-> 0, status |-> "absent", shiftStartTotal |-> 10000 * Cent,
     shiftEndTotal |-> 25000 * Cent, totalEFTPOS |-> 0, totalTripsCount |-> 10,
     endPhoto |-> FALSE, eftposPhoto |-> FALSE]

\* createDriverReport up to and including DriverReport.findOne({ driver, shift })
createDriverReportFind(c, a) ==
    /\ calls[c].pc = "idle"
    /\ calls' = [calls EXCEPT ![c] =
          [NoCall EXCEPT !.op = "createDriverReport", !.a = a,
               !.s = targetShift(a, DraftBody),
               !.pc = IF createDriverReportResp(a, DraftBody) = "OK"
                      THEN "write" ELSE "done",
               !.result = createDriverReportResp(a, DraftBody)]]
    /\ UNCHANGED <<hub, rides, users, shifts, reports, calc, recon>>

\* createDriverReport from Ride.find on: newReport.save() inserts the
\* document; the collection has no unique index on { driver, shift }
createDriverReportSave(c) ==
    /\ CallAt(c, "createDriverReport", "write")
    /\ HasFreshReport
    /\ \E calculations \in createCalculations(DraftBody) :
         reports' = [reports EXCEPT ![FreshReport] =
            [status |-> createdStatus(DraftBody), driver |-> calls[c].a.id,
             shift |-> calls[c].s,
             associatedRides |-> completedRidesOf(calls[c].a.id),
             reportData |-> bodyData(DraftBody),
             endPhoto |-> FALSE, eftposPhoto |-> FALSE,
             expensePhoto |-> FALSE, calculations |-> calculations]]
    /\ calls' = Finish(c, "OK")
    /\ UNCHANGED <<hub, rides, users, shifts, calc, recon>>

\* ------------------------------------------------------------- request inputs
\* number of client ids in a request body (0: none)
MaxClients == 1
ClientCounts == 0..MaxClients
\* fareTotal of a request body: absent, or an amount
Fares == {NoAmount, 1001 * Cent}
UpdateStatuses == {"accepted", "cancelled", "completed", "started"}
DriverArgs == 0..(NumDrivers + 1)

Next ==
    \/ \E a \in ReqUsers, d \in DriverArgs, n \in ClientCounts : assignRide(a, d, n)
    \/ \E a \in ReqUsers, n \in ClientCounts : createScheduledBooking(a, n)
    \/ \E a \in ReqUsers, r \in RideIds, d \in DriverArgs : assignScheduledBooking(a, r, d)
    \/ \E a \in ReqUsers, r \in RideIds : deleteScheduledBooking(a, r)
    \/ \E a \in ReqUsers, r \in RideIds : acceptRide(a, r)
    \/ \E a \in ReqUsers, r \in RideIds : rejectRide(a, r)
    \/ \E a \in ReqUsers, r \in RideIds : startRide(a, r)
    \/ \E a \in ReqUsers, r \in RideIds, k \in ClientCounts : dropRide(a, r, NoAmount, k)
    \/ \E a \in ReqUsers, r \in RideIds, ok \in BOOLEAN : cancelOngoingRide(a, r, ok)
    \/ \E a \in ReqUsers, r \in RideIds, ok \in BOOLEAN : abortRide(a, r, ok)
    \/ \E a \in ReqUsers, r \in RideIds, st \in UpdateStatuses : updateRideStatus(a, r, st)
    \/ \E a \in ReqUsers, r \in RideIds, d \in DriverArgs : reassignRide(a, r, d)
    \/ \E a \in ReqUsers, d \in DriverArgs : createQuickTrip(a, d)
    \/ \E a \in ReqUsers, r \in RideIds, f \in Fares : completeQuickTripDetails(a, r, f)
    \/ \E a \in ReqUsers, f \in Fares, p \in ClientCounts : createSelfAssignedRide(a, f, p)
    \/ \E a \in ReqUsers, ok \in BOOLEAN : startShift(a, ok)
    \/ \E a \in ReqUsers, s \in ShiftIds : endShift(a, s)

Spec == Init /\ [][Next]_vars

\* ===================================================== ride state machine
\* the transition table of the ride status
RideEdges == {<<"scheduled", "assigned">>, <<"assigned", "accepted">>,
              <<"assigned", "rejected">>, <<"assigned", "cancelled">>,
              <<"accepted", "cancelled">>, <<"started", "cancelled">>,
              <<"assigned", "aborted">>, <<"accepted", "aborted">>,
              <<"accepted", "started">>, <<"started", "completed">>}

TerminalStatuses == {"completed", "cancelled", "rejected", "aborted"}

\* refusals on the ground of the ride's status
StatusRefusals == {"INVALID_TRANSITION", "INVALID_STATUS"}

\* refusals of a request that is malformed, names no ride, or comes from an
\* actor who may not perform the operation on this ride
GuardRefusals == {"VALIDATION_ERROR", "INVALID_REASON", "NOT_FOUND",
                  "RIDE_NOT_FOUND", "NOT_QUICK_TRIP", "FORBIDDEN"}

\* every status-changing request on ride r that a client can send, as the
\* pair <<status it asks for, response it gets in this state>>
StatusAttempts(r) ==
    UNION {
      {<<"accepted", acceptRideResp(a, r)>>,
       <<"rejected", rejectRideResp(a, r)>>,
       <<"started", startRideResp(a, r)>>,
       <<"cancelled", cancelOngoingRideResp(a, r, TRUE)>>,
       <<"aborted", abortRideResp(a, r, TRUE)>>}
      \cup {<<"completed", dropRideResp(a, r, NoAmount, k)>> : k \in ClientCounts}
      \cup {<<"completed", completeQuickTripDetailsResp(a, r, f)>> : f \in Fares}
      \cup {<<st, updateRideStatusResp(a, r, st)>> : st \in UpdateStatuses}
      \cup {<<"assigned", assignScheduledBookingResp(a, r, d)>> : d \in DriverArgs}
      : a \in ReqUsers }

\* C1: the status of a ride changes only along an edge of the transition
\* table; a request for any other transition, whatever the ride's status
\* (terminal statuses included), meets a guard refusal or is refused with
\* INVALID_TRANSITION or INVALID_STATUS, and so never changes the status.
C1_TransitionTable ==
    \A r \in RideIds : Exists(r) =>
        \A at \in StatusAttempts(r) :
            <<rides[r].status, at[1]>> \notin RideEdges
                => at[2] \in StatusRefusals \cup GuardRefusals

\* the part of C1 that the handlers keep: every status change is an edge
\* and no ride leaves a terminal status
StatusChangesAlongEdges ==
    [][\A r \in RideIds :
          (Exists(r) /\ rides'[r].status # rides[r].status)
              => \/ <<rides[r].status, rides'[r].status>> \in RideEdges
                 \/ rides[r].status = "scheduled" /\ rides'[r].status = "deleted"]_vars

\* C5: a completed ride has startedAt set.
C5_CompletedHasStartedAt ==
    \A r \in RideIds : rides[r].status = "completed" => rides[r].startedAt

\* a quick trip completed by completeQuickTripDetails next to a ride
\* completed by dropRide or updateRideStatus
C5_Witness ==
    \E r, q \in RideIds :
        /\ rides[r].status = "completed" /\ rides[r].startedAt /\ rides[r].isQuickTrip
        /\ rides[q].status = "completed" /\ rides[q].startedAt /\ ~rides[q].isQuickTrip

\* x / n is nearest to the whole number of cents y
IsRoundedDiv(x, n, y) ==
    y % Cent = 0 /\ 2 * (n * y - x) <= n * Cent /\ 2 * (x - n * y) <= n * Cent

\* C9: the fare stored on a completed ride has perPerson = total / number of
\* clients and halfFare = total / 2, each rounded to two decimals.
C9_FareOnCompletion ==
    \A r \in RideIds : (rides[r].status = "completed" /\ rides[r].nClients > 0) =>
        /\ IsRoundedDiv(rides[r].total, rides[r].nClients, rides[r].perPerson)
        /\ IsRoundedDiv(rides[r].total, 2, rides[r].halfFare)

\* =============================================== report calculation service
\* arguments of calculateReportTotals: amounts of a report (NoAmount: the
\* field is missing), a settings object, options.allowPartial
StartTotals == {NoAmount, 0, 10000 * Cent}
EndTotals == {NoAmount, 110 * Cent, 115 * Cent, 25000 * Cent}
LiftingsAmounts == {0, 2000 * Cent}
CashFareAmounts == {0, 3000 * Cent}
EftposAmounts == {0, 4000 * Cent}
AccountTripAmounts == {0, 1500 * Cent}
ExpenseAmounts == {0, 1055 * Cent}
TripCounts == {0, 1, 10}
SettingsSet == {DEFAULT_SETTINGS,
                [rentalRatePercentage |-> 50, tripLevyRate |-> 100 * Cent]}

ReportDatas ==
    [shiftStartTotal : StartTotals, shiftEndTotal : EndTotals,
     liftings : LiftingsAmounts, cashFares : CashFareAmounts,
     totalEFTPOS : EftposAmounts, totalAccountTrips : AccountTripAmounts,
     cashExpenses : ExpenseAmounts, totalTripsCount : TripCounts]

InitCalc ==
    /\ InitHub
    /\ rides = [r \in RideIds |-> NoRide]
    /\ users = [d \in Drivers |-> DRIVER_STATUS.FREE]
    /\ shifts = [s \in ShiftIds |-> NoShift]
    /\ calls = [c \in CallIds |-> NoCall]
    /\ reports = [id \in ReportIds |-> NoReport]
    /\ recon = NoRecon
    /\ calc \in [reportData : ReportDatas, settings : SettingsSet,
                 allowPartial : BOOLEAN, returned : {FALSE},
                 out : {calcThrown(DEFAULT_SETTINGS)}]

\* the call returns (or throws)
Calculate ==
    /\ ~calc.returned
    /\ \E o \in calculateReportTotals(calc.reportData, calc.settings,
                                      calc.allowPartial) :
          calc' = [calc EXCEPT !.returned = TRUE, !.out = o]
    /\ UNCHANGED <<hub, rides, users, shifts, calls, reports, recon>>

NextCalc == Calculate

SpecCalc == InitCalc /\ [][NextCalc]_vars

\* C6: the returned two-decimal values satisfy
\* driverNetPay = -(subTotal + tripLevy) and
\* operatorEarnings = totalFareAndLiftings - rentals.
C6_Identities ==
    (calc.returned /\ ~calc.out.threw) =>
        /\ calc.out.driverNetPay = 0 - (calc.out.subTotal + calc.out.tripLevy)
        /\ calc.out.operatorEarnings =
               calc.out.totalFareAndLiftings - calc.out.rentals

\* y is a whole number of cents, and none is nearer to x
IsRounded(x, y) == y % Cent = 0 /\ 2 * (y - x) <= Cent /\ 2 * (x - y) <= Cent

\* y is a whole number of cents, and none is nearer to x / 100
IsRoundedPercent(x, y) ==
    y % Cent = 0 /\ 2 * (100 * y - x) <= 100 * Cent /\ 2 * (x - 100 * y) <= 100 * Cent

\* both meter totals known and end >= start
CompleteInput(rd) ==
    /\ rd.shiftStartTotal # NoAmount
    /\ rd.shiftEndTotal # NoAmount
    /\ rd.shiftEndTotal >= rd.shiftStartTotal

ScenarioData ==
    [shiftStartTotal |-> 10000 * Cent, shiftEndTotal |-> 25000 * Cent,
     liftings |-> 2000 * Cent, cashFares |-> 3000 * Cent,
     totalEFTPOS |-> 0, totalAccountTrips |-> 0, cashExpenses |-> 0,
     totalTripsCount |-> 10]

IsScenario == calc.reportData = ScenarioData /\ calc.settings = DEFAULT_SETTINGS

\* C7: on a complete input every field is its formula over the unrounded
\* values, rounded to two decimals; start 100, end 250, liftings 20, cash
\* fares 30, 10 trips at 45% and 1.32 give 150.00, 200.00, 90.00, 90.00,
\* 13.20, -103.20 and 110.00.
C7_Formulas ==
    (calc.returned /\ CompleteInput(calc.reportData)) =>
      LET rd == calc.reportData
          o == calc.out
          fares == rd.shiftEndTotal - rd.shiftStartTotal
          total == fares + rd.liftings + rd.cashFares
          rate == calc.settings.rentalRatePercentage
          paid == rd.totalEFTPOS + rd.totalAccountTrips + rd.cashExpenses
          levy == rd.totalTripsCount * calc.settings.tripLevyRate
      IN  /\ ~o.threw /\ ~o.partial
          /\ IsRounded(fares, o.shiftTotalFares)
          /\ IsRounded(total, o.totalFareAndLiftings)
          /\ IsRoundedPercent(total * rate, o.rentals)
          /\ IsRoundedPercent(total * rate - 100 * paid, o.subTotal)
          /\ IsRounded(levy, o.tripLevy)
          /\ IsRoundedPercent(0 - (total * rate - 100 * paid + 100 * levy),
                              o.driverNetPay)
          /\ IsRoundedPercent(total * (100 - rate), o.operatorEarnings)
          /\ IsScenario =>
                /\ o.shiftTotalFares = 15000 * Cent
                /\ o.totalFareAndLiftings = 20000 * Cent
                /\ o.rentals = 9000 * Cent
                /\ o.subTotal = 9000 * Cent
                /\ o.tripLevy = 1320 * Cent
                /\ o.driverNetPay = 0 - 10320 * Cent
                /\ o.operatorEarnings = 11000 * Cent

\* the scenario has been calculated
C7_Witness ==
    /\ calc.returned /\ IsScenario /\ ~calc.out.partial
    /\ calc.out.rentals = 9000 * Cent

\* C8: with the end total unknown, the partial calculation returns every
\* calculated field 0 and partial = true and does not throw, whatever the
\* start total and the other inputs.
C8_PartialZeros ==
    (calc.returned /\ calc.allowPartial /\ calc.reportData.shiftEndTotal = NoAmount) =>
        /\ ~calc.out.threw
        /\ calc.out.partial
        /\ calc.out.shiftTotalFares = 0
        /\ calc.out.totalFareAndLiftings = 0
        /\ calc.out.rentals = 0
        /\ calc.out.subTotal = 0
        /\ calc.out.tripLevy = 0
        /\ calc.out.driverNetPay = 0
        /\ calc.out.operatorEarnings = 0

\* ============================================= shifts, requests interleaved
NextShift ==
    \/ \E c \in CallIds, a \in ReqUsers : startShiftFind(c, a)
    \/ \E c \in CallIds, delivered \in BOOLEAN : startShiftCreate(c, delivered)
    \/ \E c \in CallIds : respond(c)
    \/ \E a \in ReqUsers, s \in ShiftIds : endShift(a, s)

SpecShift == Init /\ [][NextShift]_vars

\* C2: a driver never has two active shifts, also when startShift requests
\* for the same driver interleave.
C2_OneActiveShift ==
    \A d \in Drivers : Cardinality(ActiveShiftsOf(d)) <= 1

\* two requests of one driver both found no active shift; the second insert
\* was rejected by the index: the driver has the one shift of the first
C2_Witness ==
    \E c, other \in CallIds :
        /\ CallAt(c, "startShift", "done") /\ CallAt(other, "startShift", "done")
        /\ calls[other].a = calls[c].a
        /\ calls[other].result = "OK"
        /\ calls[c].result = "SERVER_ERROR"
        /\ Cardinality(ActiveShiftsOf(calls[c].a.id)) = 1
        /\ Cardinality(ShiftsByStatusActive(calls[c].a.id)) = 1

\* C3: a startShift request that ends while its driver has an active shift
\* is refused with the conflict error and changes no shift record, the
\* loser of a race included.
C3_RefusedWithConflict ==
    [][\A c \in CallIds :
          (/\ calls[c].pc # "done"
           /\ calls'[c].pc = "done"
           /\ calls'[c].op = "startShift"
           /\ activeShift(calls'[c].a.id) # 0)
              => /\ calls'[c].result = "ACTIVE_SHIFT_EXISTS"
                 /\ shifts' = shifts]_vars

\* ======================================== assignments, requests interleaved
NextAssign ==
    \/ \E a \in ReqUsers, n \in ClientCounts : createScheduledBooking(a, n)
    \/ \E c \in CallIds, a \in ReqUsers, d \in DriverArgs, n \in ClientCounts :
          assignRideCheck(c, a, d, n)
    \/ \E c \in CallIds, a \in ReqUsers, r \in RideIds, d \in DriverArgs :
          assignScheduledBookingCheck(c, a, r, d)
    \/ \E c \in CallIds, a \in ReqUsers, d \in DriverArgs : createQuickTripCheck(c, a, d)
    \/ \E c \in CallIds : assignRideCreate(c)
    \/ \E c \in CallIds : assignScheduledBookingSave(c)
    \/ \E c \in CallIds : createQuickTripCreate(c)
    \/ \E c \in CallIds, delivered \in BOOLEAN : driverOnRide(c, delivered)
    \/ \E c \in CallIds : respond(c)

SpecAssign == Init /\ [][NextAssign]_vars

\* C4: no driver is freed here, so a driver is free for at most one
\* assignment: two assignment requests that have succeeded never name the
\* same driver.
C4_NoDoubleAssignment ==
    \A c1, c2 \in CallIds :
        (/\ c1 # c2
         /\ calls[c1].pc = "done" /\ calls[c1].result = "OK"
         /\ calls[c2].pc = "done" /\ calls[c2].result = "OK")
            => calls[c1].d # calls[c2].d

\* =========================================================== driver reports
\* bodies of createDriverReport: shift (0: none named), status ("absent":
\* none given), the two meter totals, the EFTPOS total, the trip count, and
\* the photo urls given with the amounts
BodyStatuses == {"absent", "approved", "bogus"}
Bodies ==
    [shift : {0} \cup ShiftIds, status : BodyStatuses,
     shiftStartTotal : {NoAmount, 10000 * Cent},
     shiftEndTotal : {NoAmount, 5000 * Cent, 25000 * Cent},
     totalEFTPOS : {0, 4000 * Cent}, totalTripsCount : {NoAmount, 10},
     endPhoto : BOOLEAN, eftposPhoto : BOOLEAN]
PhotoTypes == {"meter_start", "meter_end", "eftpos", "bogus"}
ReviewActions == {"approve", "reject", "bogus"}

NextReport ==
    \/ \E a \in ReqUsers, ok \in BOOLEAN : startShift(a, ok)
    \/ \E a \in ReqUsers, s \in ShiftIds : endShift(a, s)
    \/ \E a \in ReqUsers, body \in Bodies : createDriverReport(a, body)
    \/ \E a \in ReqUsers, id \in ReportIds, t \in PhotoTypes :
          updateReportPhotoUrl(a, id, t)
    \/ \E a \in ReqUsers, id \in ReportIds : submitReport(a, id)
    \/ \E a \in ReqUsers, id \in ReportIds, act \in ReviewActions :
          reviewReport(a, id, act)
    \/ \E a \in ReqUsers, id \in ReportIds : deleteReport(a, id)

SpecReport == Init /\ [][NextReport]_vars

ReportEdges == {<<"draft", "submitted">>, <<"submitted", "approved">>,
                <<"submitted", "rejected">>}

\* C10: a report is created with status draft, and its status changes only
\* draft -> submitted, submitted -> approved and submitted -> rejected.
C10_ReportLifecycle ==
    [][\A id \in ReportIds :
          /\ (~ReportExists(id) /\ ReportExists(id)') => reports'[id].status = "draft"
          /\ (ReportExists(id) /\ ReportExists(id)'
                  /\ reports'[id].status # reports[id].status)
               => <<reports[id].status, reports'[id].status>> \in ReportEdges]_vars

\* ==================================================== editing a driver report
\* bodies of createDriverReport for the driver's active shift, complete but
\* for the photos; photo types of uploadReportPhoto; bodies of
\* updateDriverReport (an end total below the start total, an EFTPOS total
\* of 50 with or without its photoUrl, liftings 0)
EditBodies ==
    [shift : {0}, status : {"absent", "approved"},
     shiftStartTotal : {10000 * Cent}, shiftEndTotal : {25000 * Cent},
     totalEFTPOS : {0}, totalTripsCount : {10},
     endPhoto : {FALSE}, eftposPhoto : {FALSE}]
UploadPhotoTypes == {"absent", "meter_end", "eftpos", "bogus"}
UpdateDatas ==
    [shiftEndTotal : {NoAmount, 5000 * Cent},
     totalEFTPOS : {NoAmount, 5000 * Cent},
     liftings : {NoAmount, 0}, photoUrl : BOOLEAN]

NextEdit ==
    \/ \E a \in ReqUsers, ok \in BOOLEAN : startShift(a, ok)
    \/ \E a \in ReqUsers, s \in ShiftIds : endShift(a, s)
    \/ \E a \in ReqUsers, body \in EditBodies : createDriverReport(a, body)
    \/ \E a \in ReqUsers, id \in ReportIds, updateData \in UpdateDatas :
          updateDriverReport(a, id, updateData)
    \/ \E a \in ReqUsers, id \in ReportIds, t \in UploadPhotoTypes, file \in BOOLEAN :
          uploadReportPhoto(a, id, t, file)
    \/ \E a \in ReqUsers, id \in ReportIds, t \in PhotoTypes :
          updateReportPhotoUrl(a, id, t)
    \/ \E a \in ReqUsers, id \in ReportIds : submitReport(a, id)
    \/ \E a \in ReqUsers, id \in ReportIds, act \in ReviewActions :
          reviewReport(a, id, act)
    \/ \E a \in ReqUsers, id \in ReportIds : deleteReport(a, id)

SpecEdit == Init /\ [][NextEdit]_vars

\* what an edit of a report can touch: inputs, photo references, calculations
ReportContent(id) ==
    <<reports[id].reportData, reports[id].endPhoto, reports[id].eftposPhoto,
      reports[id].expensePhoto, reports[id].calculations>>

\* C11: updateDriverReport, uploadReportPhoto, updateReportPhotoUrl and
\* deleteReport are refused on every report that is not a draft, and no step
\* changes the inputs, the photo references or the calculations of such a
\* report or removes it.
C11_EditOnlyDraft ==
    /\ [](\A id \in ReportIds : (ReportExists(id) /\ reports[id].status # "draft") =>
            \A a \in ReqUsers :
               /\ \A updateData \in UpdateDatas :
                    \A calculations \in calculateReportTotals(
                            updatedData(id, updateData), DEFAULT_SETTINGS, FALSE) :
                       updateDriverReportResp(a, id, updateData, calculations) # "OK"
               /\ \A t \in UploadPhotoTypes, file \in BOOLEAN :
                    uploadReportPhotoResp(a, id, t, file) # "OK"
               /\ \A t \in PhotoTypes : updateReportPhotoUrlResp(a, id, t) # "OK"
               /\ deleteReportResp(a, id) # "OK")
    /\ [][\A id \in ReportIds : (ReportExists(id) /\ reports[id].status # "draft") =>
              /\ ReportExists(id)'
              /\ ReportContent(id)' = ReportContent(id)]_vars

\* a report that was edited as a draft (EFTPOS total, photos) is under
\* review, and its owner's update and delete requests are refused
C11_Witness ==
    \E id \in ReportIds :
        /\ reports[id].status = "submitted"
        /\ reports[id].reportData.totalEFTPOS = 5000 * Cent
        /\ reports[id].endPhoto
        /\ deleteReportResp([id |-> reports[id].driver, role |-> ROLES.DRIVER], id)
               = "REPORT_NOT_DELETABLE"
        /\ uploadReportPhotoResp([id |-> reports[id].driver, role |-> ROLES.DRIVER],
                                 id, "meter_end", TRUE) = "REPORT_NOT_EDITABLE"

\* the owner of a report, as req.user
OwnerOf(id) == [id |-> reports[id].driver, role |-> ROLES.DRIVER]

\* end-meter photo, EFTPOS photo with a positive EFTPOS total, expense photo
\* with positive cash expenses, trip count not negative
HasRequiredPhotos(id) ==
    /\ reports[id].endPhoto
    /\ (reports[id].reportData.totalEFTPOS > 0 => reports[id].eftposPhoto)
    /\ (reports[id].reportData.cashExpenses > 0 => reports[id].expensePhoto)
    /\ reports[id].reportData.totalTripsCount >= 0

NextCreate ==
    \/ \E a \in ReqUsers, ok \in BOOLEAN : startShift(a, ok)
    \/ \E a \in ReqUsers, s \in ShiftIds : endShift(a, s)
    \/ \E c \in CallIds, a \in ReqUsers : createDriverReportFind(c, a)
    \/ \E c \in CallIds : createDriverReportSave(c)
    \/ \E c \in CallIds : respond(c)

SpecCreate == Init /\ [][NextCreate]_vars

\* C13: a driver and a shift have at most one report, whatever the
\* interleaving of the createDriverReport requests.
C13_OneReportPerShift ==
    \A id, other \in ReportIds :
        (/\ ReportExists(id) /\ ReportExists(other)
         /\ reports[id].driver = reports[other].driver
         /\ reports[id].shift = reports[other].shift)
            => id = other

\* ============================================================= reassignment
\* C14: reassignRide succeeds only on an assigned ride and for a new driver
\* whose status is free; a step that gives an assigned ride another driver
\* leaves the ride assigned, the new driver on_ride and the old driver free.
C14_ReassignNeedsFreeDriver ==
    /\ [](\A r \in RideIds, a \in ReqUsers, nd \in Drivers :
            reassignRideResp(a, r, nd) = "OK"
               => rides[r].status = "assigned" /\ users[nd] = DRIVER_STATUS.FREE)
    /\ [][\A r \in RideIds :
              (/\ rides[r].status = "assigned" /\ rides'[r].status = "assigned"
               /\ rides'[r].driver # rides[r].driver)
                  => /\ users'[rides'[r].driver] = DRIVER_STATUS.ON_RIDE
                     /\ users'[rides[r].driver] = DRIVER_STATUS.FREE]_vars

\* C15: a refused ride operation changes no ride and no driver's status.
\* Every other ride handler writes only after its last refusal, so that a
\* refusal is no step at all; reassignRide writes before ensureDriverFree
\* can refuse, and the step of a refused reassignRide is to change nothing.
C15_RefusalChangesNothing ==
    [][\A a \in ReqUsers, r \in RideIds, nd \in DriverArgs :
          (reassignRideResp(a, r, nd) # "OK" /\ reassignRide(a, r, nd))
              => UNCHANGED <<hub, rides, users>>]_vars

\* ============================================================ reconciliation
\* arguments of calculateReconciliation: the meter totals and the trip count
\* of a report, and rides of any status with their fare.total
ReconStartTotals == {NoAmount, 10000 * Cent}
ReconEndTotals == {10000 * Cent, 15000 * Cent, 17005 * Cent, 20001 * Cent,
                   25000 * Cent}
ReconTripCounts == {0, 3, 4, 6, 7, 8}
ReconRides ==
    {[NoRide EXCEPT !.status = st, !.total = t] :
        st \in {"completed", "started", "cancelled"},
        t \in {2005 * Cent, 5000 * Cent, 6000 * Cent}}

InitRecon ==
    /\ InitHub
    /\ rides = [r \in RideIds |-> NoRide]
    /\ users = [d \in Drivers |-> DRIVER_STATUS.FREE]
    /\ shifts = [s \in ShiftIds |-> NoShift]
    /\ calls = [c \in CallIds |-> NoCall]
    /\ reports = [id \in ReportIds |-> NoReport]
    /\ calc = NoCalc
    /\ \E start \in ReconStartTotals, end \in ReconEndTotals,
          trips \in ReconTripCounts, associatedRides \in [RideIds -> ReconRides] :
         recon = [NoRecon EXCEPT
                     !.reportData = [NoReportData EXCEPT
                                        !.shiftStartTotal = start,
                                        !.shiftEndTotal = end,
                                        !.totalTripsCount = trips],
                     !.associatedRides = associatedRides]

\* the call returns
Reconcile ==
    /\ ~recon.returned
    /\ \E o \in calculateReconciliation(recon.reportData, recon.associatedRides) :
          recon' = [recon EXCEPT !.returned = TRUE, !.out = o]
    /\ UNCHANGED <<hub, rides, users, shifts, calls, reports, calc>>

NextRecon == Reconcile

SpecRecon == InitRecon /\ [][NextRecon]_vars

\* the sum of fare.total over the completed rides among ids
RECURSIVE CompletedFares(_, _)
CompletedFares(f, ids) ==
    IF ids = {} THEN 0
    ELSE LET id == CHOOSE x \in ids : TRUE
         IN  (IF f[id].status = "completed" THEN f[id].total ELSE 0)
                + CompletedFares(f, ids \ {id})

\* every amount is a whole number of dollars
WholeDollars(reportData, f) ==
    /\ num(reportData.shiftStartTotal) % (100 * Cent) = 0
    /\ num(reportData.shiftEndTotal) % (100 * Cent) = 0
    /\ \A id \in DOMAIN f : f[id].total % (100 * Cent) = 0

NextLedger ==
    \/ \E a \in ReqUsers : startShift(a, TRUE)
    \/ \E a \in ReqUsers, d \in Drivers : assignRide(a, d, 1)
    \/ \E a \in ReqUsers, r \in RideIds : acceptRide(a, r)
    \/ \E a \in ReqUsers, r \in RideIds : startRide(a, r)
    \/ \E a \in ReqUsers, r \in RideIds : dropRide(a, r, 1001 * Cent, 0)
    \/ \E a \in ReqUsers : createDriverReport(a, DraftBody)
    \/ \E a \in ReqUsers, id \in ReportIds : getReportById(a, id)

SpecLedger == Init /\ [][NextLedger]_vars

\* the completed rides of the shift of report id
ShiftRides(id) ==
    {r \in RideIds : rides[r].shift = reports[id].shift /\ rides[r].status = "completed"}

\* C17: the reconciliation returned for a report compares against the fares
\* and the number of the rides of the report's shift that are completed when
\* it is computed.
C17_ReconciliationOfShift ==
    [][\A a \in ReqUsers, id \in ReportIds :
          getReportById(a, id) =>
              /\ recon'.out.totalSystemTrips = Cardinality(ShiftRides(id))
              /\ recon'.out.totalSystemFares = CompletedFares(rides, ShiftRides(id))]_vars

\* ============================================================= notifications
\* C18: a request whose handler has written (the ride created and the driver
\* marked on_ride; the shift inserted) answers OK whether or not the
\* notification that follows the write is delivered.
C18_NotificationNonFatal ==
    [][\A c \in CallIds :
          (/\ calls'[c].pc = "done"
           /\ \/ calls[c].pc = "mark"
              \/ calls[c].pc = "create" /\ shifts' # shifts)
              => calls'[c].result = "OK"]_vars

\* ============================================ acceptRide, requests interleaved
NextAccept ==
    \/ \E a \in ReqUsers : startShift(a, TRUE)
    \/ \E a \in ReqUsers, d \in Drivers : assignRide(a, d, 1)
    \/ \E c \in CallIds, a \in ReqUsers, r \in RideIds : acceptRideFind(c, a, r)
    \/ \E c \in CallIds : acceptRideSave(c)
    \/ \E c \in CallIds, delivered \in BOOLEAN : driverOnRide(c, delivered)
    \/ \E c \in CallIds : respond(c)

SpecAccept == Init /\ [][NextAccept]_vars

\* C19: of two acceptRide requests for one ride at most one succeeds,
\* whatever the interleaving of their reads and writes.
C19_OneAcceptSucceeds ==
    \A c, other \in CallIds :
        (/\ c # other
         /\ CallAt(c, "acceptRide", "done") /\ CallAt(other, "acceptRide", "done")
         /\ calls[c].r = calls[other].r)
            => ~(calls[c].result = "OK" /\ calls[other].result = "OK")

\* ========================================================= driver released
\* C20: a step that takes a ride to rejected, cancelled, aborted or
\* completed leaves the ride's driver with status free.
C20_DriverFreedAtEnd ==
    [][\A r \in RideIds :
          (/\ Exists(r)
           /\ rides[r].status \notin TerminalStatuses
           /\ rides'[r].status \in TerminalStatuses)
              => /\ rides[r].driver \in Drivers
                 /\ users'[rides[r].driver] = "free"]_vars

\* an aborted ride next to a completed one, the drivers of both free
C20_Witness ==
    \E r, q \in RideIds :
        /\ rides[r].status = "aborted" /\ users[rides[r].driver] = "free"
        /\ rides[q].status = "completed" /\ users[rides[q].driver] = "free"

\* ================================================== who may move a ride
\* the responses to the well-formed requests of actor a that ask to move
\* ride r to accepted, rejected, started, cancelled or completed
DriverMoveResps(a, r) ==
    {acceptRideResp(a, r), rejectRideResp(a, r), startRideResp(a, r),
     cancelOngoingRideResp(a, r, TRUE)}
    \cup {dropRideResp(a, r, NoAmount, k) : k \in ClientCounts}
    \cup (IF rides[r].isQuickTrip
          THEN {completeQuickTripDetailsResp(a, r, 1001 * Cent)} ELSE {})
    \cup {updateRideStatusResp(a, r, st) : st \in {"accepted", "cancelled", "completed"}}

\* C21: on a ride that has a driver, a request to accept, reject, start,
\* cancel or complete it succeeds only when its actor is that driver, and a
\* request to abort it only when its actor is a manager; the request of any
\* other actor is answered FORBIDDEN.
C21_OnlyOwnDriverOrManager ==
    \A r \in RideIds : (Exists(r) /\ rides[r].driver \in Drivers) =>
        \A a \in ReqUsers :
            /\ a.id # rides[r].driver => DriverMoveResps(a, r) = {"FORBIDDEN"}
            /\ a.role # ROLES.MANAGER => abortRideResp(a, r, TRUE) = "FORBIDDEN"

\* ============================================ rides need an active shift
\* C22: a step by which a ride enters accepted, started or completed (a
\* ride created as accepted included) is taken while the ride's driver has
\* an active shift.
C22_NeedsActiveShift ==
    [][\A r \in RideIds :
          (/\ rides'[r].status \in {"accepted", "started", "completed"}
           /\ rides'[r].status # rides[r].status)
              => ActiveShiftsOf(rides'[r].driver) # {}]_vars

\* ================================================== availability of a driver
UserStatusArgs == {"absent", DRIVER_STATUS.FREE, DRIVER_STATUS.ON_RIDE}

NextFleet ==
    \/ \E a \in ReqUsers : startShift(a, TRUE)
    \/ \E a \in ReqUsers, s \in ShiftIds : endShift(a, s)
    \/ \E a \in ReqUsers, d \in Drivers : assignRide(a, d, 1)
    \/ \E a \in ReqUsers, r \in RideIds : acceptRide(a, r)
    \/ \E a \in ReqUsers, r \in RideIds : startRide(a, r)
    \/ \E a \in ReqUsers, r \in RideIds : dropRide(a, r, NoAmount, 0)
    \/ \E a \in ReqUsers, r \in RideIds : cancelOngoingRide(a, r, TRUE)
    \/ \E a \in ReqUsers, r \in RideIds : abortRide(a, r, TRUE)
    \/ \E a \in ReqUsers, r \in RideIds, d \in Drivers : reassignRide(a, r, d)
    \/ \E a \in ReqUsers : createSelfAssignedRide(a, 1001 * Cent, 1)
    \/ \E a \in ReqUsers, u \in UserIds, st \in UserStatusArgs : updateUser(a, u, st)

SpecFleet == Init /\ [][NextFleet]_vars

\* the rides a driver is on: assigned, accepted or started
OpenStatuses == {"assigned", "accepted", "started"}
OpenRidesOf(d) == {r \in RideIds : rides[r].driver = d /\ rides[r].status \in OpenStatuses}

\* C23: between requests, a driver's status is on_ride exactly when the
\* driver has a ride that is assigned, accepted or started.
C23_OnRideIffOpenRide ==
    \A d \in Drivers : users[d] = DRIVER_STATUS.ON_RIDE <=> OpenRidesOf(d) # {}

\* C24: no driver has more than one ride that is assigned, accepted or
\* started.
C24_OneOpenRidePerDriver ==
    \A d \in Drivers : Cardinality(OpenRidesOf(d)) <= 1

\* ================================ accept and abort, requests interleaved
NextRace ==
    \/ \E a \in ReqUsers : startShift(a, TRUE)
    \/ \E a \in ReqUsers, d \in Drivers : assignRide(a, d, 1)
    \/ \E c \in CallIds, a \in ReqUsers, r \in RideIds : acceptRideFind(c, a, r)
    \/ \E c \in CallIds : acceptRideSave(c)
    \/ \E c \in CallIds, delivered \in BOOLEAN : driverOnRide(c, delivered)
    \/ \E c \in CallIds, a \in ReqUsers, r \in RideIds : abortRideFind(c, a, r)
    \/ \E c \in CallIds : abortRideSave(c)
    \/ \E c \in CallIds, delivered \in BOOLEAN : abortRideFree(c, delivered)
    \/ \E c \in CallIds : respond(c)

SpecRace == Init /\ [][NextRace]_vars

\* no request is between two of its awaits
Quiescent == \A c \in CallIds : calls[c].pc \in {"idle", "done"}

\* C25: once the requests on a ride have finished, a driver who is on_ride
\* is the driver of a ride that is assigned, accepted or started, whatever
\* the interleaving of a driver's request with a staff request.
C25_NoStrandedDriver ==
    Quiescent =>
        \A d \in Drivers : users[d] = DRIVER_STATUS.ON_RIDE => OpenRidesOf(d) # {}

\* ======================================================= the shift of a ride
\* a step by which ride r enters accepted refers it to a shift of its driver
\* that is active
AcceptLinksShift(r) ==
    (rides'[r].status = "accepted" /\ rides[r].status # "accepted")
        => rides'[r].shift \in ActiveShiftsOf(rides'[r].driver)

\* a step by which ride r enters started or completed gives it a shift
\* reference when it has none and keeps the one it has
StartKeepsShift(r) ==
    (rides'[r].status \in {"started", "completed"} /\ rides'[r].status # rides[r].status)
        => /\ rides'[r].shift # 0
           /\ rides[r].shift # 0 => rides'[r].shift = rides[r].shift

\* C26: a ride that enters accepted is linked to its driver's active shift;
\* a ride that enters started or completed gets a shift reference only when
\* it has none; every started or completed ride has a shift reference.
C26_RideLinkedToShift ==
    /\ [][\A r \in RideIds : AcceptLinksShift(r) /\ StartKeepsShift(r)]_vars
    /\ [](\A r \in RideIds :
             rides[r].status \in {"started", "completed"} => rides[r].shift # 0)

\* ================================================= shifts and ongoing rides
\* the handlers that look for the active shift, and the two shift handlers
NextDuty ==
    \/ \E a \in ReqUsers, ok \in BOOLEAN : startShift(a, ok)
    \/ \E a \in ReqUsers, s \in ShiftIds : endShift(a, s)
    \/ \E a \in ReqUsers, d \in DriverArgs, n \in ClientCounts : assignRide(a, d, n)
    \/ \E a \in ReqUsers, r \in RideIds : acceptRide(a, r)
    \/ \E a \in ReqUsers, r \in RideIds : rejectRide(a, r)
    \/ \E a \in ReqUsers, r \in RideIds : startRide(a, r)
    \/ \E a \in ReqUsers, r \in RideIds, k \in ClientCounts : dropRide(a, r, NoAmount, k)
    \/ \E a \in ReqUsers, r \in RideIds, ok \in BOOLEAN : cancelOngoingRide(a, r, ok)

SpecDuty == Init /\ [][NextDuty]_vars

\* C27: the driver of a ride that is accepted or started has an active
\* shift: no request ends the shift of a driver who has such a ride.
C27_ShiftOpenWhileOnRide ==
    \A r \in RideIds :
        rides[r].status \in {"accepted", "started"}
            => ActiveShiftsOf(rides[r].driver) # {}

\* ======================================================== self-assigned rides
\* what createSelfAssignedRide leaves behind, but for the shift: the caller
\* is a driver, the ride is new, accepted with acceptedAt set and the
\* caller as its driver, and the caller is on_ride
SelfAssignedCreated(a) ==
    /\ a.role = ROLES.DRIVER
    /\ rides[FreshRide].status = "none"
    /\ rides'[FreshRide].status = "accepted"
    /\ rides'[FreshRide].acceptedAt
    /\ rides'[FreshRide].isSelfAssigned
    /\ rides'[FreshRide].driver = a.id
    /\ users'[a.id] = DRIVER_STATUS.ON_RIDE

\* C28: a createSelfAssignedRide request that succeeds comes from a driver
\* and creates a ride that is accepted from the start, with acceptedAt set,
\* the caller as its driver and the caller's active shift as its shift, and
\* leaves the caller on_ride.
C28_SelfAssignedStartsAccepted ==
    [][\A a \in ReqUsers, f \in Fares, p \in ClientCounts :
          createSelfAssignedRide(a, f, p)
              => /\ SelfAssignedCreated(a)
                 /\ rides'[FreshRide].shift \in ActiveShiftsOf(a.id)]_vars

\* ============================================================ ending a shift
\* C29: endShift succeeds only on an active shift of the caller, and then
\* clears isActive and sets endTime; an ended shift is not active, no step
\* changes it, and every endShift request on it is refused.
C29_ShiftEndsOnce ==
    /\ [](\A s \in ShiftIds, a \in ReqUsers :
             /\ endShiftResp(a, s) = "OK"
                   => shifts[s].isActive /\ shifts[s].driver = a.id
             /\ shifts[s].ended
                   => ~shifts[s].isActive /\ endShiftResp(a, s) # "OK")
    /\ [][\A s \in ShiftIds :
              /\ shifts[s].ended => shifts'[s] = shifts[s]
              /\ (\E a \in ReqUsers : endShift(a, s))
                    => ~shifts'[s].isActive /\ shifts'[s].ended]_vars

\* a driver has ended one shift and started the next; a second endShift on
\* the ended shift is answered NOT_FOUND
C29_Witness ==
    \E s, t \in ShiftIds :
        /\ shifts[s].ended /\ ~shifts[s].isActive
        /\ shifts[t].driver = shifts[s].driver /\ shifts[t].isActive
        /\ endShiftResp([id |-> shifts[s].driver, role |-> ROLES.DRIVER], s) = "NOT_FOUND"

\* ================================================= drafts without an end total
\* bodies of createDriverReport for the active shift that hold a start
\* total and a trip count and leave shiftEndTotal out
PartialBodies ==
    {body \in Bodies : /\ body.shift = 0 /\ body.status = "absent"
                       /\ body.shiftStartTotal # NoAmount
                       /\ body.shiftEndTotal = NoAmount
                       /\ body.totalTripsCount # NoAmount}

\* refusals on the ground of the report's amounts
AmountRefusals == {"VALIDATION_ERROR", "CALCULATION_ERROR", "INTERNAL_ERROR"}

\* C30: a createDriverReport request that holds a start total and no end
\* total is not refused on the ground of its amounts: it is answered OK
\* unless the caller is no driver, has no shift to report on, or has a
\* report for the shift already.
C30_DraftWithoutEndTotal ==
    \A a \in ReqUsers, body \in PartialBodies :
        createDriverReportResp(a, body) \notin AmountRefusals

\* ================================================ calculations of a report
\* bodies of createDriverReport for the active shift: a meter that starts
\* at 0 or at 100, with or without a status of their own
SubmitBodies ==
    [shift : {0}, status : {"absent", "approved"},
     shiftStartTotal : {0, 10000 * Cent}, shiftEndTotal : {25000 * Cent},
     totalEFTPOS : {0}, totalTripsCount : {10},
     endPhoto : {FALSE}, eftposPhoto : {FALSE}]
\* bodies of updateDriverReport that leave the EFTPOS total alone
SubmitUpdates == {u \in UpdateDatas : u.totalEFTPOS = NoAmount /\ ~u.photoUrl}

NextSubmit ==
    \/ \E a \in ReqUsers : startShift(a, TRUE)
    \/ \E a \in ReqUsers, body \in SubmitBodies : createDriverReport(a, body)
    \/ \E a \in ReqUsers, id \in ReportIds, updateData \in SubmitUpdates :
          updateDriverReport(a, id, updateData)
    \/ \E a \in ReqUsers, id \in ReportIds : updateReportPhotoUrl(a, id, "meter_end")
    \/ \E a \in ReqUsers, id \in ReportIds : submitReport(a, id)
    \/ \E a \in ReqUsers, id \in ReportIds, act \in ReviewActions :
          reviewReport(a, id, act)

SpecSubmit == Init /\ [][NextSubmit]_vars

\* the stored calculations o are the formulas over the inputs rd, each
\* rounded to two decimals
ReportFormula(rd, settings, o) ==
    LET fares == num(rd.shiftEndTotal) - num(rd.shiftStartTotal)
        total == fares + num(rd.liftings) + num(rd.cashFares)
        rate == settings.rentalRatePercentage
        paid == num(rd.totalEFTPOS) + num(rd.totalAccountTrips) + num(rd.cashExpenses)
        levy == int(rd.totalTripsCount) * settings.tripLevyRate
    IN  /\ IsRounded(fares, o.shiftTotalFares)
        /\ IsRounded(total, o.totalFareAndLiftings)
        /\ IsRoundedPercent(total * rate, o.rentals)
        /\ IsRoundedPercent(total * rate - 100 * paid, o.subTotal)
        /\ IsRounded(levy, o.tripLevy)
        /\ IsRoundedPercent(0 - (total * rate - 100 * paid + 100 * levy), o.driverNetPay)
        /\ IsRoundedPercent(total * (100 - rate), o.operatorEarnings)

Reviewable(id) == reports[id].status \in {"submitted", "approved"}

\* C31: a report that is submitted or approved stores the calculations of
\* its own inputs, with shiftTotalFares >= 0 and rentals <=
\* totalFareAndLiftings, and no step changes the calculations of such a
\* report.
C31_SubmittedCalculations ==
    /\ [](\A id \in ReportIds : Reviewable(id) =>
             /\ ReportFormula(reports[id].reportData, DEFAULT_SETTINGS,
                              reports[id].calculations)
             /\ reports[id].calculations.shiftTotalFares >= 0
             /\ reports[id].calculations.rentals
                   <= reports[id].calculations.totalFareAndLiftings)
    /\ [][\A id \in ReportIds : (Reviewable(id) /\ ReportExists(id)') =>
              reports'[id].calculations = reports[id].calculations]_vars

\* =================================================== updates of a draft
\* bodies of updateDriverReport that set the liftings (to 20, or to 0), the
\* end total (to 300), or nothing
DraftUpdates ==
    [shiftEndTotal : {NoAmount, 30000 * Cent}, totalEFTPOS : {NoAmount},
     liftings : {NoAmount, 0, 2000 * Cent}, photoUrl : {FALSE}]

NextUpdate ==
    \/ \E a \in ReqUsers, ok \in BOOLEAN : startShift(a, ok)
    \/ \E a \in ReqUsers, s \in ShiftIds : endShift(a, s)
    \/ \E a \in ReqUsers : createDriverReport(a, DraftBody)
    \/ \E a \in ReqUsers, id \in ReportIds, updateData \in DraftUpdates :
          updateDriverReport(a, id, updateData)
    \/ \E a \in ReqUsers, id \in ReportIds : deleteReport(a, id)

SpecUpdate == Init /\ [][NextUpdate]_vars

\* C32: an updateDriverReport request that succeeds leaves the report with
\* the calculations of the inputs it now stores, also when the new value of
\* an input is 0.
C32_UpdateRecalculates ==
    [][\A a \in ReqUsers, id \in ReportIds, updateData \in DraftUpdates :
          updateDriverReport(a, id, updateData)
              => ReportFormula(reports'[id].reportData, DEFAULT_SETTINGS,
                               reports'[id].calculations)]_vars

\* ============================================ who changes a driver's status
\* C33: a request that is no ride operation (startShift, endShift,
\* updateUser) changes no driver's availability status.
C33_StatusOnlyByRides ==
    [][(\/ \E a \in ReqUsers : startShift(a, TRUE)
        \/ \E a \in ReqUsers, s \in ShiftIds : endShift(a, s)
        \/ \E a \in ReqUsers, u \in UserIds, st \in UserStatusArgs : updateUser(a, u, st))
          => users' = users]_vars

\* ==================================================== the two meter totals
\* bodies and updates whose totals come in either order; an update may name
\* the start total alone
TotalsBodies ==
    [shift : {0}, status : {"absent"},
     shiftStartTotal : {0, 10000 * Cent, 30000 * Cent},
     shiftEndTotal : {NoAmount, 0, 25000 * Cent},
     totalEFTPOS : {0}, totalTripsCount : {10},
     endPhoto : {FALSE}, eftposPhoto : {FALSE}]
TotalsUpdates ==
    [shiftStartTotal : {NoAmount, 0, 20000 * Cent, 40000 * Cent},
     shiftEndTotal : {NoAmount, 15000 * Cent, 35000 * Cent},
     totalEFTPOS : {NoAmount}, liftings : {NoAmount, 0}, photoUrl : {FALSE}]

NextTotals ==
    \/ \E a \in ReqUsers : startShift(a, TRUE)
    \/ \E a \in ReqUsers, body \in TotalsBodies : createDriverReport(a, body)
    \/ \E a \in ReqUsers, id \in ReportIds, updateData \in TotalsUpdates :
          updateDriverReport(a, id, updateData)

SpecTotals == Init /\ [][NextTotals]_vars

\* C34: every stored driver report has an end total that is at least its
\* start total, whatever createDriverReport and updateDriverReport calls
\* were made one after the other.
C34_EndNotBelowStart ==
    \A id \in ReportIds :
        ReportExists(id) =>
            reports[id].reportData.shiftEndTotal >= reports[id].reportData.shiftStartTotal

\* a report whose start total was set by an update (no body holds 200)
C34_Witness ==
    \E id \in ReportIds :
        /\ ReportExists(id)
        /\ reports[id].reportData.shiftStartTotal = 20000 * Cent

\* ================================= startRide among interleaved requests
NextStart ==
    \/ \E a \in ReqUsers : startShift(a, TRUE)
    \/ \E a \in ReqUsers : assignRide(a, 1, 1)
    \/ \E c \in CallIds, a \in ReqUsers, r \in RideIds : acceptRideFind(c, a, r)
    \/ \E c \in CallIds : acceptRideSave(c)
    \/ \E c \in CallIds : driverOnRide(c, TRUE)
    \/ \E a \in ReqUsers, r \in RideIds : startRide(a, r)
    \/ \E c \in CallIds, a \in ReqUsers, r \in RideIds : abortRideFind(c, a, r)
    \/ \E c \in CallIds : abortRideSave(c)
    \/ \E c \in CallIds : abortRideFree(c, TRUE)
    \/ \E c \in CallIds : respond(c)

SpecStart == Init /\ [][NextStart]_vars

\* C35: in every reachable state a ride that is scheduled, assigned,
\* accepted, rejected or aborted has no startedAt, a ride that is started or
\* completed has one, and no startRide request is refused ALREADY_STARTED.
C35_StartedAtIffStarted ==
    /\ \A r \in RideIds :
          /\ rides[r].status \in {"scheduled", "assigned", "accepted",
                                  "rejected", "aborted"} => ~rides[r].startedAt
          /\ rides[r].status \in {"started", "completed"} => rides[r].startedAt
    /\ \A a \in ReqUsers, r \in RideIds : startRideResp(a, r) # "ALREADY_STARTED"

\* ============================================== reassignment notifications
NextReassign ==
    \/ \E a \in ReqUsers, d \in Drivers : assignRide(a, d, 1)
    \/ \E a \in ReqUsers, r \in RideIds, nd \in Drivers, fresh \in BOOLEAN :
          reassignRideSend(a, r, nd, fresh)

SpecReassign == Init /\ [][NextReassign]_vars

\* C36: every reassignRide request that succeeds leaves a notification for
\* the new driver and one for the old driver that were not there before, or
\* at least pushes one to each of them.
C36_ReassignNotifiesBoth ==
    [][\A a \in ReqUsers, r \in RideIds, nd \in Drivers, fresh \in BOOLEAN :
          reassignRideSend(a, r, nd, fresh) /\ reassignRideResp(a, r, nd) = "OK" =>
             \A k \in {keyOf(nd, "ride_reassigned", r, "null"),
                       keyOf(rides[r].driver, "ride_status", r, "reassigned")} :
                \/ Len(notifications'[k]) > Len(notifications[k])
                \/ k.user \in pushed']_vars

\* ================================================= sendNotification, alone
SendUsers == {1}
SendRides == {1}
Messages == {1, 2}

NextNotify ==
    \/ \E c \in SendIds, userId \in SendUsers, type \in NotifTypes, rideId \in SendRides,
          status \in NotifStatuses, message \in Messages, fresh \in BOOLEAN :
          sendNotificationMatch(c, userId, type, rideId, status, message, fresh)
    \/ \E c \in SendIds : sendNotificationInsert(c)
    \/ \E c \in SendIds : sendNotificationReturn(c)

SpecNotify == Init /\ [][NextNotify]_vars

clientsOf(m, u) == IF u \in DOMAIN m THEN m[u] ELSE {}

\* if (!sseClients.has(userId)) sseClients.set(userId, new Set());
\* sseClients.get(userId).add(res)
sseAddClient(m, u, k) ==
    [x \in DOMAIN m \cup {u} |-> IF x = u THEN clientsOf(m, u) \cup {k} ELSE m[x]]

\* the close listener: set.delete(res), and the key with it when the set
\* is empty
onClose(m, u, k) ==
    IF u \notin DOMAIN m THEN m
    ELSE IF m[u] \ {k} = {} THEN [x \in DOMAIN m \ {u} |-> m[x]]
    ELSE [m EXCEPT ![u] = @ \ {k}]

\* a request whose route awaits before stream is called: a driver's on the
\* /notifications mount, where requireApprovedDriver reads the agreement
awaitsAgreement(u, legacy) == legacy /\ u \in Drivers

\* the handler stream on connection k: the response is registered and the
\* close listener attached, whatever has become of the socket
registered(k, u) ==
    /\ sseClients' = sseAddClient(sseClients, u, k)
    /\ conns' = [conns EXCEPT ![k].state = IF @ = "none" THEN "open" ELSE @,
                              ![k].user = u, ![k].handled = TRUE,
                              ![k].listening = (@ \/ conns[k].state # "closed")]

\* GET /stream arrives on a new connection k of user u
connect(k, u, legacy) ==
    /\ conns[k].state = "none"
    /\ IF awaitsAgreement(u, legacy)
       THEN /\ conns' = [conns EXCEPT ![k].state = "open", ![k].user = u]
            /\ UNCHANGED sseClients
       ELSE registered(k, u)
    /\ UNCHANGED <<rides, users, shifts, aux, notifications, sends, pushed>>

\* requireApprovedDriver calls next(): stream runs
stream(k) ==
    /\ conns[k].state # "none" /\ ~conns[k].handled
    /\ registered(k, conns[k].user)
    /\ UNCHANGED <<rides, users, shifts, aux, notifications, sends, pushed>>

\* the client goes away: the response emits close, once, to the listeners
\* it has at that moment
disconnect(k) ==
    /\ conns[k].state = "open"
    /\ conns' = [conns EXCEPT ![k].state = "closed"]
    /\ sseClients' = IF conns[k].listening
                     THEN onClose(sseClients, conns[k].user, k) ELSE sseClients
    /\ UNCHANGED <<rides, users, shifts, aux, notifications, sends, pushed>>

\* ssePush(userId, ...): res.write on every response of the user's set
ssePush(u) ==
    /\ clientsOf(sseClients, u) # {}
    /\ conns' = [k \in Conns |->
                    IF k \in clientsOf(sseClients, u) /\ conns[k].state = "closed"
                    THEN [conns[k] EXCEPT !.written = TRUE] ELSE conns[k]]
    /\ pushed' = {u}
    /\ UNCHANGED <<rides, users, shifts, aux, notifications, sends, sseClients>>

NextStream ==
    \/ \E k \in Conns, u \in UserIds, legacy \in BOOLEAN : connect(k, u, legacy)
    \/ \E k \in Conns : stream(k)
    \/ \E k \in Conns : disconnect(k)
    \/ \E u \in UserIds : ssePush(u)

SpecStream == Init /\ [][NextStream]_vars

\* C38: the registry holds, under each user, exactly the connections of
\* that user whose stream was opened and that are still open; no key maps to
\* the empty set; nothing is written to a connection that has closed.
C38_RegistryIsOpenConnections ==
    /\ \A u \in UserIds :
          clientsOf(sseClients, u) =
             {k \in Conns : /\ conns[k].user = u /\ conns[k].handled
                            /\ conns[k].state = "open"}
    /\ \A u \in DOMAIN sseClients : sseClients[u] # {}
    /\ \A k \in Conns : ~conns[k].written

\* ================================================ the flags, one to another
\* C39: a reconciliation with system data that requires review has a
\* significant fare variance or a significant trip variance.
C39_ReviewImpliesSignificant ==
    recon.returned /\ recon.out.hasSystemData /\ recon.out.requiresReview =>
        recon.out.significantFareVariance \/ recon.out.significantTripVariance

\* a reconciliation that requires review for its trips alone
C39_Witness ==
    /\ recon.returned /\ recon.out.hasSystemData /\ recon.out.requiresReview
    /\ ~recon.out.significantFareVariance
    /\ recon.out.significantTripVariance

====
